---- MODULE Spec2Model ----
(***************************************************************************)
(* Luminav Films backend: the media ingestion pipeline (video and teaser   *)
(* upload handlers, HLS conversion, S3 publishing, metadata insert) and    *)
(* the singleton current-film record.                                      *)
(*                                                                         *)
(* Strings the code transforms (titles, request body fields) are           *)
(* sequences of one-character strings; a percent is kept in tenths so that *)
(* Math.round has something to round.                                      *)
(***************************************************************************)
EXTENDS Integers, Sequences, FiniteSets, TLC

\* ---------------------------------------------------------------- bounds
NumRuns == 1
MaxProgress == 1
MaxSegments == 1
NumCallers == 3
MaxDeletes == 1
MaxVideos == 2
MaxTitleLen == 3

\* limits: { fileSize: 2 * 1024 * 1024 * 1024 }, counted in MiB
FILE_SIZE_LIMIT_MIB == 2048

\* const SIGNED_URL_EXPIRY = 60 * 10, in seconds
SIGNED_URL_EXPIRY == 600

Runs == 1..NumRuns
Callers == 1..NumCallers

\* two login attempts, to be compared with one another
Attempts == {1, 2}

\* image uploads and image deletes served
MaxImageUploads == 1
MaxImageDeletes == 1

\* ------------------------------------------------------- string helpers
IsSpace(c) == c \in {" ", "\t"}

LowerOf(c) ==
    CASE c = "M" -> "m"
      [] c = "F" -> "f"
      [] c = "T" -> "t"
      [] OTHER -> c

IsSlugChar(c) == c \in {"m", "y", "f", "t", "e", "a", "s", "r", "1", "_"}

RECURSIVE TrimStart(_)
TrimStart(s) ==
    IF s = <<>> THEN <<>>
    ELSE IF IsSpace(Head(s)) THEN TrimStart(Tail(s)) ELSE s

RECURSIVE TrimEnd(_)
TrimEnd(s) ==
    IF s = <<>> THEN <<>>
    ELSE IF IsSpace(s[Len(s)]) THEN TrimEnd(SubSeq(s, 1, Len(s) - 1)) ELSE s

\* String.prototype.trim
Trim(s) == TrimEnd(TrimStart(s))

\* String.prototype.toLowerCase
ToLowerCase(s) == [i \in 1..Len(s) |-> LowerOf(s[i])]

\* .replace(/\s+/g, "_"): every maximal run of whitespace becomes one "_"
RECURSIVE SpacesToUnderscore(_)
SpacesToUnderscore(s) ==
    IF s = <<>> THEN <<>>
    ELSE IF IsSpace(Head(s))
         THEN <<"_">> \o SpacesToUnderscore(TrimStart(s))
         ELSE <<Head(s)>> \o SpacesToUnderscore(Tail(s))

\* .replace(/[^a-z0-9_]/g, "")
StripUnsafe(s) == SelectSeq(s, IsSlugChar)

\* video.service.js toSafeSlug
toSafeSlug(title) == StripUnsafe(SpacesToUnderscore(ToLowerCase(Trim(title))))

\* the inline slug without its last replace
ControllerSlugUnstripped(title) == SpacesToUnderscore(ToLowerCase(Trim(title)))

\* the slug uploadAndCreateVideo computes inline for the upload prefix
ControllerSlug(title) == StripUnsafe(SpacesToUnderscore(ToLowerCase(Trim(title))))

\* Math.round on a value given in tenths: floor(x + 0.5)
MathRound(tenths) == (tenths + 5) \div 10


\* ------------------------------------------------------ program constants
TEASER_S3_PREFIX == <<"short_films", <<"t", "e", "a", "s", "e", "r">>>>
MYSQL_DUP_ENTRY == "ER_DUP_ENTRY"
Manifest == "output.m3u8"

\* shot_%03d.ts with -start_number 0
SegmentName(i) == IF i = 0 THEN "shot_000.ts" ELSE IF i = 1 THEN "shot_001.ts" ELSE "shot_002.ts"

\* ------------------------------------------------------------ the inputs
\* What the transcoder can leave in the output directory when it reports 'end'.
OutputSets ==
    {{}} \cup {{Manifest} \cup {SegmentName(i) : i \in 0..(n - 1)} : n \in 1..MaxSegments}

\* progress.percent as fluent-ffmpeg reports it, in tenths of a percent
\* (0: no percent, or 0)
PercentTenths == {0, 504, 1503}

TitleMyF == <<"M", "y", " ", " ", "F", "!">>

\* every title of at most MaxTitleLen characters over a small alphabet
TitleChars == {"M", "y", " ", "!", "1"}
Titles == UNION {[1..n -> TitleChars] : n \in 0..MaxTitleLen}
SlugRequests == {[category |-> "short_films", title |-> t] : t \in Titles}

VideoBody(c, t, d) ==
    [file |-> TRUE, category |-> c, title |-> t, description |-> d,
     thumbnailOne |-> "", thumbnailTwo |-> "thumb2.jpg"]

VideoRequests ==
    { VideoBody("short_films", TitleMyF, "d"),
      [VideoBody("short_films", TitleMyF, "d") EXCEPT !.file = FALSE],
      VideoBody("", TitleMyF, "d"),
      VideoBody("short_films", <<>>, "d"),
      VideoBody("short_films", TitleMyF, "") }

TeaserRequests == { [file |-> TRUE], [file |-> FALSE] }

NoRequest == [file |-> FALSE]

\* err.message of the error a failing stage throws; "" is an error without one
\* (a rejected upload)
ErrMsgs(stage) == IF stage = "upload" THEN { stage, "" } ELSE { stage }

\* ------------------------------------------------------------- the state
VARIABLES
    pc,          \* run -> where its handler is suspended
    kind,        \* run -> "none" | "video" | "teaser"
    req,         \* run -> the request it handles
    events,      \* run -> the events written to the response, in order
    ended,       \* run -> res.end() has been called
    tempDir,     \* run -> the uuid of its workspace directory (0: none yet)
    fsDirs,      \* the workspace directories that exist on disk
    rmCount,     \* run -> how many times its workspace has been removed
    ffout,       \* run -> "none" | "end" | "error": what the transcoder reported
    failed,      \* run -> the stage whose failure the handler caught ("none")
    upl,         \* run -> [output file -> "inflight" | "ok" | "failed"]
    s3,          \* the object store: a set of [key, run]
    videos,      \* the videos table
    nextId,      \* its AUTO_INCREMENT counter
    uuidCount,   \* uuids handed out so far
    insertedBy,  \* run -> ids of the videos rows it inserted
    current_film,  \* the current_film table
    filmNextId,    \* its AUTO_INCREMENT counter
    call,          \* caller -> the state of its POST /api/current request
    deletes,       \* DELETE /api/current requests served so far
    lastCreated,   \* what the latest successful createCurrentFilm returned
    reply,         \* the latest response of the JSON endpoints that delete or create
    slugReq,       \* the category and title the two slug computations are given
    uploadKey,     \* the manifest key the upload path derives from them (<<>>: not yet)
    recordUrl,     \* the manifest URL the metadata service derives (<<>>: not yet)
    closedAt,      \* run -> "open", or where the run stood when its client went away
    incoming, \* run -> the file part multer was sent for it, and what multer did
    stream, \* the stream request being served, how often, and the latest answer
    login, \* attempt -> the state of its POST /api/admin/login request
    delivered, \* run -> how many of its events have reached the client
    images, \* the images table
    imgStore, \* the keys of the image objects in the bucket
    imgReq,  \* the image request being served, with the store call it waits for
    paging  \* the listing request being served: its query string and what became of it

pipeVars == <<pc, kind, req, events, ended, tempDir, fsDirs, rmCount, ffout, failed,
              upl, s3, videos, nextId, uuidCount, insertedBy>>
filmVars == <<current_film, filmNextId, call, deletes, lastCreated>>
auxVars == <<reply, slugReq, uploadKey, recordUrl, closedAt, incoming, stream, login, delivered, images, imgStore, imgReq, paging>>
vars == <<pipeVars, filmVars, auxVars>>

NoUploads == [f \in {} |-> "inflight"]
NoCall == [pc |-> "idle", status |-> 0, code |-> "", body |-> <<>>, err |-> "", tries |-> 0]
NoReply == [op |-> "none", status |-> 0, err |-> "", id |-> <<>>]
NoSlugReq == [category |-> "", title |-> <<>>]
NoFilm == [id |-> 0]
NoPart == [route |-> "none", mime |-> <<>>, size |-> 0, passed |-> FALSE,
           loggedIn |-> FALSE, through |-> <<>>]
NoHash == [cost |-> 0, of |-> <<>>]
NoLogin == [pc |-> "idle", email |-> <<>>, password |-> <<>>, found |-> <<>>,
            compared |-> NoHash, status |-> 0, message |-> ""]
NoQuery == [sent |-> 0, first |-> "", second |-> "", result |-> "none"]
NoKey == [category |-> "", serial |-> 0, thumb |-> FALSE]
NoImgReq == [op |-> "none", pc |-> "idle", category |-> "", key |-> NoKey,
             thumbnailUrl |-> <<>>, inserted |-> 0, q |-> NoQuery, lastq |-> NoQuery,
             status |-> 0, uploads |-> 0, deletes |-> 0]
NoPagingQuery == [limit |-> <<>>, page |-> <<>>]
NoPaging == [query |-> NoPagingQuery, pc |-> "idle", limit |-> 0, offset |-> 0,
             sql |-> <<>>, sent |-> 0, q |-> NoQuery, status |-> 0]
NoParams == [category |-> "", videoSlug |-> <<>>, filename |-> <<>>]
NoUrl == [key |-> <<>>, expiresIn |-> 0, contentType |-> "", disposition |-> ""]
NoStream == [params |-> NoParams, served |-> 0, status |-> 0, location |-> NoUrl, signedFor |-> 0]

\* the state after start-up, with R the requests the pipeline will be given
\* sr the category and title handed to the slug computations and sp the path
\* parameters of the stream request
InitWith(R, sr, sp, pq) ==
    /\ pc = [r \in R |-> "idle"]
    /\ kind = [r \in R |-> "none"]
    /\ req = [r \in R |-> NoRequest]
    /\ events = [r \in R |-> <<>>]
    /\ ended = [r \in R |-> FALSE]
    /\ tempDir = [r \in R |-> 0]
    /\ fsDirs = {}
    /\ rmCount = [r \in R |-> 0]
    /\ ffout = [r \in R |-> "none"]
    /\ failed = [r \in R |-> "none"]
    /\ upl = [r \in R |-> NoUploads]
    /\ s3 = {}
    /\ videos = {}
    /\ nextId = 1
    /\ uuidCount = 0
    /\ insertedBy = [r \in R |-> {}]
    /\ current_film = {}
    /\ filmNextId = 1
    /\ call = [c \in Callers |-> NoCall]
    /\ deletes = 0
    /\ lastCreated = NoFilm
    /\ reply = NoReply
    /\ slugReq = sr
    /\ uploadKey = <<>>
    /\ recordUrl = <<>>
    /\ closedAt = [r \in R |-> "open"]
    /\ incoming = [r \in R |-> NoPart]
    /\ stream = [NoStream EXCEPT !.params = sp]
    /\ login = [a \in Attempts |-> NoLogin]
    /\ delivered = [r \in R |-> 0]
    /\ images = {}
    /\ imgStore = {}
    /\ imgReq = NoImgReq
    /\ paging = [NoPaging EXCEPT !.query = pq]

InitOver(R, sr, sp) == InitWith(R, sr, sp, NoPagingQuery)

Init == InitOver(Runs, NoSlugReq, NoParams)

\* ------------------------------------------------- the progress channel
\* sendEvent / send: res.write of one event
sendEvent(ev, data) == Append(ev, data)

ProgressEvent(stage, percent) == [type |-> "progress", stage |-> stage, percent |-> percent]

\* err.message without the fallback
ErrorMessageRaw(kd, msg) == msg

\* err.message || 'Upload failed'   /   err.message || "Teaser upload failed."
ErrorMessage(kd, msg) ==
    IF msg # "" THEN msg
    ELSE IF kd = "video" THEN "Upload failed" ELSE "Teaser upload failed."

\* the catch block of the handler: one error event
CatchEvents(kd, ev, msg) ==
    sendEvent(ev, [type |-> "error", message |-> ErrorMessage(kd, msg)])

\* the 'progress' listener: if (onProgress && progress.percent) onProgress(Math.round(..))
OnFfmpegProgress(ev, tenths) ==
    IF tenths # 0
    THEN sendEvent(ev, ProgressEvent("converting", MathRound(tenths)))
    ELSE ev

\* the handlers sending a second 'converting' event instead
PublishedStageConverting(kd) == "converting"

\* the progress event each handler sends once convertAndUpload /
\* uploadTeaserAndConvert has returned
PublishedStage(kd) == IF kd = "video" THEN "saving" ELSE "uploading"

\* the handlers reporting the step as not yet finished
PublishedEventPartial(kd) == ProgressEvent(PublishedStage(kd), 99)

\* sendEvent({ type: 'progress', stage: 'saving', percent: 100 })  /
\* sendEvent({ type: "progress", stage: "uploading", percent: 100 })
PublishedEvent(kd) == ProgressEvent(PublishedStage(kd), 100)


\* ------------------------------------------------------ the object store
\* `${s3Prefix}/${filename}`  /  `${TEASER_S3_PREFIX}/${filename}`
KeyPrefix(kd, rq) ==
    IF kd = "video" THEN <<rq.category, ControllerSlug(rq.title)>> ELSE TEASER_S3_PREFIX

ObjectKey(prefix, filename) == Append(prefix, filename)

\* a store that keeps the earlier object beside the new one
S3PutBeside(store, key, r) == store \cup {[key |-> key, run |-> r]}

\* a store that holds the latest object alone
S3PutAlone(store, key, r) == {[key |-> key, run |-> r]}

\* upload.done(): the object is stored under its key, replacing what was there
S3Put(store, key, r) == {o \in store : o.key # key} \cup {[key |-> key, run |-> r]}

\* the join settling with the first upload that settles (Promise.race)
PromiseRace(st) ==
    IF \E f \in DOMAIN st : st[f] = "failed" THEN "rejected"
    ELSE IF DOMAIN st = {} \/ \E f \in DOMAIN st : st[f] = "ok" THEN "fulfilled"
    ELSE "pending"

\* Promise.all over the uploads of one run
PromiseAll(st) ==
    IF \E f \in DOMAIN st : st[f] = "failed" THEN "rejected"
    ELSE IF \A f \in DOMAIN st : st[f] = "ok" THEN "fulfilled"
    ELSE "pending"

\* --------------------------------------------------- the metadata recorder
\* video.service.js buildVideoUrl: the path of the playlist under the bucket host
buildVideoUrl(category, title) == <<category, toSafeSlug(title), Manifest>>

\* the row createVideoService inserts, as uploadAndCreateVideo calls it
VideoRow(id, rq) ==
    [id |-> id, category |-> rq.category, title |-> rq.title,
     description |-> rq.description,
     thumbnail_one |-> rq.thumbnailOne, thumbnail_two |-> rq.thumbnailTwo,
     video_url |-> buildVideoUrl(rq.category, rq.title)]

\* ----------------------------------------------------- request validation
\* ['category', 'title', 'description'].filter(f => !req.body[f])
MissingFields(rq) ==
    {f \in {"category", "title", "description"} :
        \/ f = "category" /\ rq.category = ""
        \/ f = "title" /\ rq.title = <<>>
        \/ f = "description" /\ rq.description = ""}

\* a handler that checks the file alone
ValidationErrorFileOnly(kd, rq) ==
    IF ~rq.file
    THEN (IF kd = "video" THEN "No video file uploaded" ELSE "No teaser file uploaded.")
    ELSE ""

\* what the handler answers before the pipeline starts ("" : the request is valid)
ValidationError(kd, rq) ==
    IF ~rq.file
    THEN (IF kd = "video" THEN "No video file uploaded" ELSE "No teaser file uploaded.")
    ELSE IF kd = "video" /\ MissingFields(rq) # {} THEN "Missing fields"
    ELSE ""

\* --------------------------------------------------------- the handlers
\* the catch block without its res.end()
ThrowWithoutEnd(r, kd, ev, stage, msg) ==
    /\ events' = [events EXCEPT ![r] = CatchEvents(kd, ev, msg)]
    /\ ended' = ended
    /\ pc' = [pc EXCEPT ![r] = "done"]
    /\ failed' = [failed EXCEPT ![r] = stage]

\* an exception reaching the catch block of the handler of run r, whose
\* response holds the events ev: the error event is written, the stream ended
Throw(r, kd, ev, stage, msg) ==
    /\ events' = [events EXCEPT ![r] = CatchEvents(kd, ev, msg)]
    /\ ended' = [ended EXCEPT ![r] = TRUE]
    /\ pc' = [pc EXCEPT ![r] = "done"]
    /\ failed' = [failed EXCEPT ![r] = stage]

\* a generator that hands out one and the same name
randomUUIDFixed(issued) == 1

\* crypto.randomUUID(), the name of the workspace under os.tmpdir(): a value
\* no earlier call returned (122 random bits), numbered as the calls are made
randomUUID(issued) == issued + 1

\* the request reaches the handler (the runs are numbered as their requests
\* arrive): validation, the first progress event, and
\* convertAndUpload / uploadTeaserAndConvert up to its first await (writeFile)
StartRun(r, kd, rq, mk, msg) ==
    /\ pc[r] = "idle"
    /\ \A q \in Runs : q < r => pc[q] # "idle"
    /\ kind' = [kind EXCEPT ![r] = kd]
    /\ req' = [req EXCEPT ![r] = rq]
    /\ IF ValidationError(kd, rq) # ""
       THEN /\ Throw(r, kd, events[r], "validation", ValidationError(kd, rq))
            /\ UNCHANGED <<tempDir, uuidCount, fsDirs>>
       ELSE /\ tempDir' = [tempDir EXCEPT ![r] = randomUUID(uuidCount)]
            /\ uuidCount' = uuidCount + 1
            /\ fsDirs' = IF mk = "tempDir" THEN fsDirs
                         ELSE fsDirs \cup {randomUUID(uuidCount)}
            /\ IF mk = "ok"
               THEN /\ events' = [events EXCEPT ![r] =
                                    sendEvent(@, ProgressEvent("converting", 0))]
                    /\ pc' = [pc EXCEPT ![r] = "writing"]
                    /\ UNCHANGED <<ended, failed>>
               ELSE Throw(r, kd, sendEvent(events[r], ProgressEvent("converting", 0)),
                          "mkdir", msg)
    /\ UNCHANGED <<rmCount, ffout, upl, s3, videos, nextId, insertedBy, filmVars, auxVars>>

uploadAndCreateVideo(r) ==
    \E rq \in VideoRequests, mk \in {"ok", "tempDir", "outputDir"}, msg \in ErrMsgs("mkdir") :
        StartRun(r, "video", rq, mk, msg)

uploadTeaser(r) ==
    \E rq \in TeaserRequests, mk \in {"ok", "tempDir", "outputDir"}, msg \in ErrMsgs("mkdir") :
        StartRun(r, "teaser", rq, mk, msg)

\* fs.promises.writeFile(inputPath, fileBuffer) settles
WriteFileSettled(r) ==
    /\ pc[r] = "writing"
    /\ \/ /\ pc' = [pc EXCEPT ![r] = "transcoding"]
          /\ UNCHANGED <<events, ended, failed>>
       \/ \E msg \in ErrMsgs("write") : Throw(r, kind[r], events[r], "write", msg)
    /\ UNCHANGED <<kind, req, tempDir, fsDirs, rmCount, ffout, upl, s3, videos, nextId,
                   uuidCount, insertedBy, filmVars, auxVars>>

\* the transcoder emits 'progress'
FfmpegProgress(r) ==
    /\ pc[r] = "transcoding"
    /\ Len(events[r]) <= MaxProgress
    /\ \E p \in PercentTenths :
           events' = [events EXCEPT ![r] = OnFfmpegProgress(@, p)]
    /\ UNCHANGED <<pc, kind, req, ended, tempDir, fsDirs, rmCount, ffout, failed, upl, s3,
                   videos, nextId, uuidCount, insertedBy, filmVars, auxVars>>

\* .on('error', resolve): the pipeline goes on with what the directory holds
FfmpegErrorResolves(r) ==
    /\ pc[r] = "transcoding"
    /\ ffout' = [ffout EXCEPT ![r] = "error"]
    /\ \E out \in OutputSets :
          /\ upl' = [upl EXCEPT ![r] = [f \in out |-> "inflight"]]
          /\ pc' = [pc EXCEPT ![r] = IF out = {} THEN "cleanup" ELSE "uploading"]
    /\ UNCHANGED <<kind, req, events, ended, tempDir, fsDirs, rmCount, failed, s3, videos,
                   nextId, uuidCount, insertedBy, filmVars, auxVars>>

\* the transcoder emits 'error': the promise rejects
FfmpegError(r) ==
    /\ pc[r] = "transcoding"
    /\ ffout' = [ffout EXCEPT ![r] = "error"]
    /\ \E msg \in ErrMsgs("transcode") : Throw(r, kind[r], events[r], "transcode", msg)
    /\ UNCHANGED <<kind, req, tempDir, fsDirs, rmCount, upl, s3, videos, nextId,
                   uuidCount, insertedBy, filmVars, auxVars>>

\* the transcoder emits 'end': readdirSync(outputDir), and one Upload per file
\* is started; Promise.all of no upload at all is fulfilled at once
FfmpegEnd(r) ==
    /\ pc[r] = "transcoding"
    /\ ffout' = [ffout EXCEPT ![r] = "end"]
    /\ \E out \in OutputSets :
          /\ upl' = [upl EXCEPT ![r] = [f \in out |-> "inflight"]]
          /\ pc' = [pc EXCEPT ![r] =
                      IF PromiseAll(upl'[r]) = "fulfilled" THEN "cleanup" ELSE "uploading"]
    /\ UNCHANGED <<kind, req, events, ended, tempDir, fsDirs, rmCount, failed, s3, videos,
                   nextId, uuidCount, insertedBy, filmVars, auxVars>>

\* one upload.done() settles; the first rejection rejects Promise.all, which
\* the handler catches while the sibling uploads go on
UploadSettled(r) ==
    \E f \in DOMAIN upl[r] :
       /\ upl[r][f] = "inflight"
       /\ \/ /\ upl' = [upl EXCEPT ![r][f] = "ok"]
             /\ s3' = S3Put(s3, ObjectKey(KeyPrefix(kind[r], req[r]), f), r)
             /\ IF pc[r] = "uploading" /\ PromiseAll(upl'[r]) = "fulfilled"
                THEN pc' = [pc EXCEPT ![r] = "cleanup"]
                ELSE UNCHANGED pc
             /\ UNCHANGED <<events, ended, failed>>
          \/ /\ upl' = [upl EXCEPT ![r][f] = "failed"]
             /\ UNCHANGED s3
             /\ IF pc[r] = "uploading"
                THEN \E msg \in ErrMsgs("upload") : Throw(r, kind[r], events[r], "upload", msg)
                ELSE UNCHANGED <<events, ended, failed, pc>>
       /\ UNCHANGED <<kind, req, tempDir, fsDirs, rmCount, ffout, videos, nextId,
                      uuidCount, insertedBy, filmVars, auxVars>>

\* fs.promises.rm(tempDir, {recursive, force}) settles; the service returns and
\* the handler goes on: the video handler sends its progress event and calls
\* createVideoService, the teaser handler sends its last two events and ends
RmSettled(r) ==
    /\ pc[r] = "cleanup"
    /\ \/ /\ fsDirs' = fsDirs \ {tempDir[r]}
          /\ rmCount' = [rmCount EXCEPT ![r] = @ + 1]
          /\ IF kind[r] = "video"
             THEN /\ events' = [events EXCEPT ![r] =
                                  sendEvent(@, PublishedEvent("video"))]
                  /\ pc' = [pc EXCEPT ![r] = "saving"]
                  /\ UNCHANGED ended
             ELSE /\ events' = [events EXCEPT ![r] =
                       sendEvent(sendEvent(@, PublishedEvent("teaser")),
                                 [type |-> "complete",
                                  fileCount |-> Cardinality(DOMAIN upl[r]),
                                  teaserUrl |-> ObjectKey(TEASER_S3_PREFIX, Manifest)])]
                  /\ ended' = [ended EXCEPT ![r] = TRUE]
                  /\ pc' = [pc EXCEPT ![r] = "done"]
          /\ UNCHANGED failed
       \/ /\ \E msg \in ErrMsgs("rm") : Throw(r, kind[r], events[r], "rm", msg)
          /\ UNCHANGED <<fsDirs, rmCount>>
    /\ UNCHANGED <<kind, req, tempDir, ffout, upl, s3, videos, nextId, uuidCount,
                   insertedBy, filmVars, auxVars>>

\* createVideoService: the INSERT INTO videos settles
InsertVideoSettled(r) ==
    /\ pc[r] = "saving"
    /\ \/ /\ videos' = videos \cup {VideoRow(nextId, req[r])}
          /\ nextId' = nextId + 1
          /\ insertedBy' = [insertedBy EXCEPT ![r] = @ \cup {nextId}]
          /\ events' = [events EXCEPT ![r] =
                          sendEvent(@, [type |-> "complete",
                                        fileCount |-> Cardinality(DOMAIN upl[r]),
                                        data |-> VideoRow(nextId, req[r])])]
          /\ ended' = [ended EXCEPT ![r] = TRUE]
          /\ pc' = [pc EXCEPT ![r] = "done"]
          /\ UNCHANGED failed
       \/ /\ \E msg \in ErrMsgs("insert") : Throw(r, kind[r], events[r], "insert", msg)
          /\ UNCHANGED <<videos, nextId, insertedBy>>
    /\ UNCHANGED <<kind, req, tempDir, fsDirs, rmCount, ffout, upl, s3, uuidCount, filmVars, auxVars>>

\* ------------------------------------------------------ the current film
\* the JSON bodies sent to POST /api/current
FilmBody(t, d, v, u) == [title |-> t, description |-> d, videoUrl |-> v, teaserUrl |-> u]

FilmBodies ==
    { FilmBody(<<" ", "A">>, <<"d">>, <<"v">>, <<"t">>),
      FilmBody(<<"B", " ">>, <<"e">>, <<"w">>, <<"u">>),
      FilmBody(<<" ">>, <<"d">>, <<"v">>, <<"t">>) }

\* err.code of a failure of the store that is no duplicate key
StoreErrors == {"ECONNRESET", "ER_DATA_TOO_LONG"}

\* how a statement can end at the store itself: "" is an answer
StoreOutcomes == StoreErrors \cup {""}

\* db.config.js query(): the codes on which the wrapper sends the statement again
RetryCodes == {"ECONNRESET", "PROTOCOL_CONNECTION_LOST"}

\* import db from "../config/db.config.js": the services hold the default
\* export, the pool, and call db.query / db.execute on it
ServiceDb == "pool"

\* how often one call sends its statement when the first attempt ends with
\* firstErr: the exported query() retries once, the pool's own methods never do
StatementsSent(via, firstErr) ==
    IF via = "query" /\ firstErr \in RetryCodes THEN 2 ELSE 1

\* the error the caller of a store call sees ("" : none), the attempts ending
\* with first and, if there is one, second
SurfacedError(via, first, second) ==
    IF StatementsSent(via, first) = 2 THEN second ELSE first

\* the ways one store call of a service can end: the error surfaced and the
\* number of times the statement was sent
StoreCalls ==
    { [err |-> SurfacedError(ServiceDb, first, second),
       sent |-> StatementsSent(ServiceDb, first)] :
          first \in StoreOutcomes, second \in StoreOutcomes }

\* ["title", ...].filter((f) => !req.body[f]?.trim())
FilmMissing(body) == {f \in DOMAIN body : Trim(body[f]) = <<>>}

\* the argument addCurrentFilm passes to createCurrentFilm
FilmArgs(body) == [f \in DOMAIN body |-> Trim(body[f])]

\* the insert giving each row a lock_col of its own
CurrentFilmRowOwnLock(id, args) ==
    [id |-> id, lock_col |-> id, title |-> args.title, description |-> args.description,
     video_url |-> args.videoUrl, teaser_url |-> args.teaserUrl]

\* INSERT INTO current_film (lock_col, title, ...) VALUES (1, ?, ?, ?, ?)
CurrentFilmRow(id, args) ==
    [id |-> id, lock_col |-> 1, title |-> args.title, description |-> args.description,
     video_url |-> args.videoUrl, teaser_url |-> args.teaserUrl]

\* the object createCurrentFilm returns on success
CreatedFilm(id, args) ==
    [id |-> id, title |-> args.title, description |-> args.description,
     videoUrl |-> args.videoUrl, teaserUrl |-> args.teaserUrl]

\* the unique key on lock_col: the row cannot be stored beside one with its lock_col
DupEntry(table, row) == \E x \in table : x.lock_col = row.lock_col

\* the catch block rethrowing the store's error as it came
CreateErrorCodeRaw(errCode) == errCode

\* the catch block of createCurrentFilm: the code of the error it throws
CreateErrorCode(errCode) == IF errCode = MYSQL_DUP_ENTRY THEN "ALREADY_EXISTS" ELSE errCode

\* a catch block answering every error alike
AddErrorStatusGeneric(code) == 500

\* the catch block of addCurrentFilm: the status of the response
AddErrorStatus(code) == IF code = "ALREADY_EXISTS" THEN 409 ELSE 500

\* current.service.js formatRow (the timestamp columns are left out)
formatRow(row) ==
    [id |-> row.id, title |-> row.title, description |-> row.description,
     videoUrl |-> row.video_url, teaserUrl |-> row.teaser_url]

\* getCurrentFilm: SELECT ... LIMIT 1 answers with any one row; the results it can give
getCurrentFilm ==
    IF current_film = {} THEN {NoFilm} ELSE {formatRow(row) : row \in current_film}

\* POST /api/current reaches addCurrentFilm: validation, then createCurrentFilm
\* sends its INSERT
addCurrentFilm(c) ==
    /\ call[c].pc = "idle"
    /\ \E body \in FilmBodies :
          call' = [call EXCEPT ![c] =
                     IF FilmMissing(body) # {}
                     THEN [pc |-> "done", status |-> 400, code |-> "", body |-> body,
                           err |-> "", tries |-> 0]
                     ELSE [pc |-> "inserting", status |-> 0, code |-> "",
                           body |-> FilmArgs(body), err |-> "", tries |-> 0]]
    /\ UNCHANGED <<current_film, filmNextId, deletes, lastCreated, pipeVars, auxVars>>

\* the store executes the INSERT of createCurrentFilm and the handler answers;
\* err is what db.execute threw ("" : the row was stored), tries the number of
\* times the statement was sent
createCurrentFilm(c) ==
    /\ call[c].pc = "inserting"
    /\ \E sc \in StoreCalls :
         LET row == CurrentFilmRow(filmNextId, call[c].body)
             errCode == IF sc.err # "" THEN sc.err
                        ELSE IF DupEntry(current_film, row) THEN MYSQL_DUP_ENTRY ELSE ""
             sent == sc.sent
         IN IF errCode = ""
            THEN /\ current_film' = current_film \cup {row}
                 /\ filmNextId' = filmNextId + 1
                 /\ lastCreated' = CreatedFilm(filmNextId, call[c].body)
                 /\ call' = [call EXCEPT ![c].pc = "done", ![c].status = 201,
                                         ![c].tries = sent]
            ELSE /\ call' = [call EXCEPT ![c].pc = "done",
                                         ![c].err = errCode,
                                         ![c].tries = sent,
                                         ![c].code = CreateErrorCode(errCode),
                                         ![c].status = AddErrorStatus(CreateErrorCode(errCode))]
                 /\ UNCHANGED <<current_film, filmNextId, lastCreated>>
    /\ UNCHANGED <<deletes, pipeVars, auxVars>>

\* a DELETE that marks the row and leaves it in the table
SoftDeleteWhereLock(table) == table

\* DELETE FROM current_film WHERE lock_col = 1: the table afterwards
DeleteWhereLock(table) == {row \in table : row.lock_col # 1}

\* result.affectedRows of that statement
LockAffectedRows(table) == Cardinality({row \in table : row.lock_col = 1})

\* deleteCurrentFilm: result.affectedRows > 0
deleteCurrentFilm(table) == LockAffectedRows(table) > 0

\* the response of removeCurrentFilm to what deleteCurrentFilm returned
RemoveStatus(deleted) == IF deleted THEN 200 ELSE 404

\* DELETE /api/current: removeCurrentFilm calls deleteCurrentFilm and answers
removeCurrentFilm ==
    /\ deletes < MaxDeletes
    /\ deletes' = deletes + 1
    /\ \E sc \in StoreCalls :
         LET err == sc.err
         IN IF err # ""
            THEN /\ reply' = [op |-> "removeCurrentFilm", status |-> 500,
                              err |-> err, id |-> <<>>]
                 /\ UNCHANGED current_film
            ELSE /\ reply' = [op |-> "removeCurrentFilm",
                              status |-> RemoveStatus(deleteCurrentFilm(current_film)),
                              err |-> "", id |-> <<>>]
                 /\ current_film' = DeleteWhereLock(current_film)
    /\ UNCHANGED <<filmNextId, call, lastCreated, pipeVars,
                   slugReq, uploadKey, recordUrl, closedAt, incoming, stream, login, delivered, images, imgStore, imgReq, paging>>

FilmNext ==
    \/ \E c \in Callers : addCurrentFilm(c)
    \/ \E c \in Callers : createCurrentFilm(c)
    \/ removeCurrentFilm

\* --------------------------------------------------- the videos endpoints
\* the JSON bodies sent to POST /api/videos
MetaBody(c, t, d, one, two) ==
    [category |-> c, title |-> t, description |-> d, thumbnailOne |-> one,
     thumbnailTwo |-> two]

MetaBodies ==
    { MetaBody("short_films", TitleMyF, "d", "thumb1.jpg", "thumb2.jpg"),
      MetaBody("films", <<"T", "1">>, "e", "a.jpg", "b.jpg"),
      MetaBody("short_films", TitleMyF, "d", "", "thumb2.jpg"),
      MetaBody("short_films", <<>>, "d", "thumb1.jpg", "thumb2.jpg") }

\* ["category", ..., "thumbnailTwo"].filter((field) => !req.body[field])
MetaMissing(body) ==
    {f \in DOMAIN body : IF f = "title" THEN body[f] = <<>> ELSE body[f] = ""}

\* POST /api/videos: createVideo validates the body and calls createVideoService
createVideo ==
    /\ nextId <= MaxVideos
    /\ \E body \in MetaBodies, sc \in StoreCalls :
         LET err == sc.err
         IN IF MetaMissing(body) # {}
            THEN /\ reply' = [op |-> "createVideo", status |-> 400, err |-> "", id |-> <<>>]
                 /\ UNCHANGED <<videos, nextId>>
            ELSE IF err # ""
            THEN /\ reply' = [op |-> "createVideo", status |-> 500, err |-> err, id |-> <<>>]
                 /\ UNCHANGED <<videos, nextId>>
            ELSE /\ videos' = videos \cup {VideoRow(nextId, body)}
                 /\ nextId' = nextId + 1
                 /\ reply' = [op |-> "createVideo", status |-> 201, err |-> "",
                              id |-> <<nextId>>]
    /\ UNCHANGED <<pc, kind, req, events, ended, tempDir, fsDirs, rmCount, ffout, failed,
                   upl, s3, uuidCount, insertedBy, filmVars,
                   slugReq, uploadKey, recordUrl, closedAt, incoming, stream, login, delivered, images, imgStore, imgReq, paging>>

\* req.params.id as DELETE /api/videos/:id receives it
IdParams == { <<"1">>, <<"2">>, <<"3">>, <<"1", "2">>, <<"2", "x">>, <<"x">> }

Digits == <<"0", "1", "2", "3", "4", "5", "6", "7", "8", "9">>

IsDigit(c) == \E i \in 1..10 : Digits[i] = c

DigitOf(c) == (CHOOSE i \in 1..10 : Digits[i] = c) - 1

RECURSIVE LeadingDigits(_)
LeadingDigits(s) ==
    IF s = <<>> \/ ~IsDigit(Head(s)) THEN <<>>
    ELSE <<Head(s)>> \o LeadingDigits(Tail(s))

RECURSIVE DigitsValue(_)
DigitsValue(d) ==
    IF d = <<>> THEN 0
    ELSE DigitsValue(SubSeq(d, 1, Len(d) - 1)) * 10 + DigitOf(d[Len(d)])

\* parseInt(s, 10): <<n>> for the number an optional sign and the leading
\* digits spell, <<>> for NaN
ParseInt(s) ==
    LET t == TrimStart(s)
        signed == t # <<>> /\ Head(t) \in {"-", "+"}
        d == LeadingDigits(IF signed THEN Tail(t) ELSE t)
    IN IF d = <<>> THEN <<>>
       ELSE IF signed /\ Head(t) = "-" THEN <<0 - DigitsValue(d)>>
       ELSE <<DigitsValue(d)>>

\* a DELETE that matches no row
DeleteWhereIdNone(table, videoId) == table

\* DELETE FROM videos WHERE id = ?: the table afterwards
DeleteWhereId(table, videoId) == {v \in table : v.id # videoId}

\* result.affectedRows of that statement
IdAffectedRows(table, videoId) == Cardinality({v \in table : v.id = videoId})

\* a deleteVideoById that answers { id } whatever the statement affected
deleteVideoByIdFound(table, videoId) == <<videoId>>

\* deleteVideoById: null (<<>>) if no row was affected, else { id: videoId }
deleteVideoById(table, videoId) ==
    IF IdAffectedRows(table, videoId) = 0 THEN <<>> ELSE <<videoId>>

\* the response of deleteVideo to what deleteVideoById returned
DeleteVideoStatus(result) == IF result = <<>> THEN 404 ELSE 200

\* DELETE /api/videos/:id
deleteVideo ==
    /\ \E p \in IdParams, sc \in StoreCalls :
         LET videoId == ParseInt(p)
             err == sc.err
         IN IF videoId = <<>>
            THEN /\ reply' = [op |-> "deleteVideo", status |-> 400, err |-> "", id |-> <<>>]
                 /\ UNCHANGED videos
            ELSE IF err # ""
            THEN /\ reply' = [op |-> "deleteVideo", status |-> 500, err |-> err,
                              id |-> videoId]
                 /\ UNCHANGED videos
            ELSE /\ reply' = [op |-> "deleteVideo",
                              status |-> DeleteVideoStatus(deleteVideoById(videos, videoId[1])),
                              err |-> "", id |-> videoId]
                 /\ videos' = DeleteWhereId(videos, videoId[1])
    /\ UNCHANGED <<pc, kind, req, events, ended, tempDir, fsDirs, rmCount, ffout, failed,
                   upl, s3, nextId, uuidCount, insertedBy, filmVars,
                   slugReq, uploadKey, recordUrl, closedAt, incoming, stream, login, delivered, images, imgStore, imgReq, paging>>

\* the client whose POST /api/current arrives first
FirstCaller == {c \in Callers : \A d \in Callers : c <= d}

\* the endpoints that create and delete records, with one POST /api/current
CrudNext ==
    \/ createVideo
    \/ deleteVideo
    \/ removeCurrentFilm
    \/ \E c \in FirstCaller : addCurrentFilm(c)
    \/ \E c \in FirstCaller : createCurrentFilm(c)

PipelineNext ==
    \E r \in Runs :
        \/ uploadAndCreateVideo(r)
        \/ uploadTeaser(r)
        \/ WriteFileSettled(r)
        \/ FfmpegProgress(r)
        \/ FfmpegError(r)
        \/ FfmpegEnd(r)
        \/ UploadSettled(r)
        \/ RmSettled(r)
        \/ InsertVideoSettled(r)

Next == PipelineNext

\* ------------------------------------------------------------- playback
\* how many GET /stream requests are served
MaxStreams == 2

\* the ends of the file names requested
ExtM3u8 == <<".", "m", "3", "u", "8">>
ExtTs == <<".", "t", "s">>
FileEnds == { ExtM3u8, ExtTs, <<".", "T", "S">>, <<".", "j", "p", "g">>, <<"t", "s">>, <<>> }
FileStems == { <<>>, <<"o">>, <<"o">> \o ExtM3u8, <<"o">> \o ExtTs }

\* req.params of GET /stream/:category/:videoSlug/:filename: a path segment
\* the route matches is never empty
FileNames == {st \o e : st \in FileStems, e \in FileEnds} \ {<<>>}

StreamParams ==
    { [category |-> c, videoSlug |-> g, filename |-> f] :
        c \in {"short_films", "ad_films"},
        g \in {<<"m", "y">>, <<"m", "y", "_", "f">>},
        f \in FileNames }

\* String.prototype.endsWith
endsWith(str, suffix) ==
    /\ Len(str) >= Len(suffix)
    /\ SubSeq(str, Len(str) - Len(suffix) + 1, Len(str)) = suffix

\* a content type chosen by the last three characters, dot or no dot
ResponseContentTypeLoose(filename) ==
    IF endsWith(filename, <<"u", "8">>) THEN "application/vnd.apple.mpegurl"
    ELSE IF endsWith(filename, <<"t", "s">>) THEN "video/mp2t"
    ELSE "application/octet-stream"

\* ResponseContentType of the GetObjectCommand
ResponseContentType(filename) ==
    IF endsWith(filename, ExtM3u8) THEN "application/vnd.apple.mpegurl"
    ELSE IF endsWith(filename, ExtTs) THEN "video/mp2t"
    ELSE "application/octet-stream"

\* a service that issues a URL only for an asset the videos table records
generateSignedUrlOfRecord(category, videoSlug, filename) ==
    LET key == IF \E v \in videos : v.category = category
               THEN <<category, videoSlug, filename>> ELSE <<>>
    IN  [key |-> key, signedUrl |-> [NoUrl EXCEPT !.key = key]]

\* generateSignedUrl: the key and the presigned GET URL; the URL is computed
\* from the command and the expiry, nothing is looked up
generateSignedUrl(category, videoSlug, filename) ==
    LET key == <<category, videoSlug, filename>>
    IN  [key |-> key,
         signedUrl |-> [key |-> key,
                        expiresIn |-> SIGNED_URL_EXPIRY,
                        contentType |-> ResponseContentType(filename),
                        disposition |-> "inline"]]

\* GET /stream/:category/:videoSlug/:filename: streamVideo answers with a
\* redirect to the presigned URL its own call of generateSignedUrl returned,
\* or with 500 when the signer throws
streamVideo ==
    /\ stream.params # NoParams
    /\ stream.served < MaxStreams
    /\ \E signed \in BOOLEAN :
          LET q == stream.params
              n == stream.served + 1
              missing == q.category = "" \/ q.videoSlug = <<>> \/ q.filename = <<>>
          IN  stream' =
                [stream EXCEPT
                   !.served = n,
                   !.status = IF missing THEN 400 ELSE IF signed THEN 302 ELSE 500,
                   !.location =
                       IF ~missing /\ signed
                       THEN generateSignedUrl(q.category, q.videoSlug, q.filename).signedUrl
                       ELSE NoUrl,
                   !.signedFor = IF ~missing /\ signed THEN n ELSE 0]
    /\ UNCHANGED <<pipeVars, filmVars, reply, slugReq, uploadKey, recordUrl, closedAt, incoming, login, delivered, images, imgStore, imgReq, paging>>

InitSign == \E sp \in StreamParams : InitOver(Runs, NoSlugReq, sp)

\* the playback URL issuer on every path it can be asked for
SpecSign == InitSign /\ [][streamVideo]_vars

\* ---------------------------------------------------------------- login
\* a bcrypt hash: its cost and the password it is the hash of
BcryptHash(password, cost) == [cost |-> cost, of |-> password]

\* the admins table: one admin, created by createAdmin (12 rounds)
Admins == { [id |-> 1, email |-> <<"m", "@", "y", ".", "t">>,
             password |-> BcryptHash(<<"p", "w">>, 12)] }

\* "$2b$10$abcdefghijklmnopqrstuvuXXX...": a salt of cost 10 and a digest
\* that is the hash of no password
DUMMY_HASH == [cost |-> 10, of |-> <<"u", "X">>]

\* req.body.email and req.body.password as the client sends them
RawEmails ==
    { <<"m", "@", "y", ".", "t">>, <<" ", "M", "@", "y", ".", "t">>,
      <<"t", "@", "y", ".", "t">>, <<"m", "@", "y">>, <<"m", " ", "@", "y", ".", "t">>,
      <<" ">>, <<>> }
RawPasswords == { <<"p", "w">>, <<"p", "w", " ">>, <<"p", "1">>, <<" ">>, <<>> }

\* /^[^\s@]+@[^\s@]+\.[^\s@]+$/ .test(email)
EMAIL_RE(email) ==
    /\ \A i \in DOMAIN email : ~IsSpace(email[i])
    /\ \E at \in DOMAIN email :
          /\ email[at] = "@"
          /\ \A i \in DOMAIN email : email[i] = "@" => i = at
          /\ at > 1
          /\ \E dot \in (at + 2)..(Len(email) - 1) : email[dot] = "."

\* findAdminByEmail: SELECT ... WHERE email = ? LIMIT 1, rows[0]
findAdminByEmail(email) ==
    IF \E row \in Admins : row.email = email
    THEN <<CHOOSE row \in Admins : row.email = email>>
    ELSE <<>>

\* bcrypt.compare(plain, hash): the password is hashed with the salt and the
\* cost of the hash and the digests are compared
BcryptCompare(plain, hash) == hash.of = plain

\* a verifyPassword that compares only when there is a hash (the earlier
\* service would hand undefined to bcrypt)
verifyPasswordIfFound(plainPassword, hashedPassword) ==
    IF hashedPassword = <<>>
    THEN [compared |-> NoHash, isMatch |-> FALSE]
    ELSE [compared |-> hashedPassword[1],
          isMatch |-> BcryptCompare(plainPassword, hashedPassword[1])]

\* verifyPassword: hashedPassword ?? DUMMY_HASH, then bcrypt.compare
verifyPassword(plainPassword, hashedPassword) ==
    LET hash == IF hashedPassword = <<>> THEN DUMMY_HASH ELSE hashedPassword[1]
    IN  [compared |-> hash, isMatch |-> BcryptCompare(plainPassword, hash)]

LoginFrame ==
    UNCHANGED <<pipeVars, filmVars, reply, slugReq, uploadKey, recordUrl, closedAt,
                incoming, stream, delivered, images, imgStore, imgReq, paging>>

\* adminLogin up to its first await: presence, sanitising, the shape of the email
adminLogin(a) ==
    /\ login[a].pc = "idle"
    /\ \E rawEmail \in RawEmails, rawPassword \in RawPasswords :
          LET email == ToLowerCase(Trim(rawEmail))
              password == Trim(rawPassword)
              answer(st, msg) == [NoLogin EXCEPT !.pc = "done", !.status = st,
                                                 !.message = msg]
          IN login' = [login EXCEPT ![a] =
                IF rawEmail = <<>> \/ rawPassword = <<>>
                THEN answer(400, "Email and password are required.")
                ELSE IF email = <<>> \/ password = <<>>
                THEN answer(400, "Email and password cannot be blank.")
                ELSE IF ~EMAIL_RE(email)
                THEN answer(400, "Enter a valid email address.")
                ELSE [NoLogin EXCEPT !.pc = "lookup", !.email = email,
                                     !.password = password]]
    /\ LoginFrame

\* the SELECT of findAdminByEmail settles; verifyPassword is called with
\* admin?.password and, once bcrypt has settled, the handler answers
LookupSettled(a) ==
    /\ login[a].pc = "lookup"
    /\ \E sc \in StoreCalls :
          IF sc.err # ""
          THEN login' = [login EXCEPT ![a].pc = "done", ![a].status = 500,
                            ![a].message = "An unexpected error occurred. Please try again."]
          ELSE LET admin == findAdminByEmail(login[a].email)
                   v == verifyPassword(login[a].password,
                                       IF admin = <<>> THEN <<>> ELSE <<admin[1].password>>)
               IN  login' = [login EXCEPT
                      ![a].pc = "done",
                      ![a].found = admin,
                      ![a].compared = v.compared,
                      ![a].status = IF admin = <<>> \/ ~v.isMatch THEN 401 ELSE 200,
                      ![a].message = IF admin = <<>> \/ ~v.isMatch
                                     THEN "Invalid credentials."
                                     ELSE "Logged in successfully."]
    /\ LoginFrame

LoginNext == \E a \in Attempts : adminLogin(a) \/ LookupSettled(a)

\* two login attempts
SpecLogin == Init /\ [][LoginNext]_vars

\* --------------------------------------------------------------- images
VALID_CATEGORIES ==
    {"featured_work", "portraits", "product_shoots", "thumbnails", "documentry", "travel"}

\* err.code of a pool.query attempt that fails
QueryErrors == {"ECONNRESET", "PROTOCOL_CONNECTION_LOST", "ER_DATA_TOO_LONG"}

\* how one pool.query attempt can end: its error ("" : an answer) and whether
\* the server applied the statement; a connection can be lost before the
\* statement reached the server or after the server applied it
AttemptOutcomes ==
    {[err |-> "", applied |-> TRUE]}
        \cup {[err |-> e, applied |-> FALSE] : e \in QueryErrors}
        \cup {[err |-> e, applied |-> TRUE] : e \in {"ECONNRESET", "PROTOCOL_CONNECTION_LOST"}}

\* a wrapper that sends the statement again after any error
queryRetryAny(q, err) ==
    IF q.sent = 0
    THEN [sent |-> 1, first |-> err, second |-> "",
          result |-> IF err = "" THEN "ok" ELSE "none"]
    ELSE [q EXCEPT !.sent = 2, !.second = err,
                   !.result = IF err = "" THEN "ok" ELSE "error"]

\* db.config.js query(): one attempt of the call q settles with err; "none" is
\* a call still waiting, for the second pool.query the catch block sent
query(q, err) ==
    IF q.sent = 0
    THEN [sent |-> 1, first |-> err, second |-> "",
          result |-> IF err = "" THEN "ok"
                     ELSE IF err \in RetryCodes THEN "none" ELSE "error"]
    ELSE [q EXCEPT !.sent = 2, !.second = err,
                   !.result = IF err = "" THEN "ok" ELSE "error"]

\* `${category}/${timestamp}-${uniqueId}-${sanitizedFilename}` and
\* `${category}/thumbnails/${timestamp}-...`
originalKey(category, serial) == [category |-> category, serial |-> serial, thumb |-> FALSE]
thumbnailKey(category, serial) == [category |-> category, serial |-> serial, thumb |-> TRUE]

\* `${BUCKET_URL}/${key}`, and thumbnailUrl.replace(`${BUCKET_URL}/`, "")
BucketUrl(key) == [bucket_url |-> "BUCKET_URL", key |-> key]
KeyOfUrl(url) == url.key

\* the row the INSERT of uploadImageToS3 adds: the table numbers its rows
\* itself (no row is ever removed from it) and is_active defaults to 1
ImageRow(table, category, key) ==
    [id |-> Cardinality(table) + 1, s3_key |-> key,
     thumbnail_url |-> IF category # "thumbnails"
                       THEN <<BucketUrl(thumbnailKey(category, key.serial))>> ELSE <<>>,
     category |-> category, is_active |-> TRUE]

\* UPDATE images SET is_active = FALSE, deleted_at = NOW() WHERE s3_key = ?
SoftDelete(table, key) ==
    {IF row.s3_key = key THEN [row EXCEPT !.is_active = FALSE] ELSE row : row \in table}

\* DELETE FROM images WHERE s3_key = ?
HardDelete(table, key) == {row \in table : row.s3_key # key}

\* deleteImageFromS3({ key, category, hardDelete = false }) as
\* deleteImageByCategory calls it: with key and category only
HardDeleteDefault == FALSE

\* the body and the file of POST /api/images/upload, past multer
ImageUploads ==
    {[file |-> f, category |-> c, mimetype |-> "image/png"] :
        f \in BOOLEAN, c \in {"portraits", "thumbnails", "films", ""}}

ImageFrame ==
    UNCHANGED <<pipeVars, filmVars, reply, slugReq, uploadKey, recordUrl, closedAt,
                incoming, stream, login, delivered, paging>>

ImageAnswered(rq, status) == [rq EXCEPT !.pc = "done", !.status = status]

\* uploadImage up to the first await of uploadImageToS3 that can be waited
\* for: the checks of the handler, the keys, and sharp
uploadImage ==
    /\ imgReq.pc \in {"idle", "done"}
    /\ imgReq.uploads < MaxImageUploads
    /\ \E up \in ImageUploads, sharpOk \in BOOLEAN :
          LET fresh == [NoImgReq EXCEPT !.op = "uploadImage",
                                        !.uploads = imgReq.uploads + 1,
                                        !.deletes = imgReq.deletes,
                                        !.category = up.category]
          IN imgReq' =
               IF ~up.file \/ up.category = "" \/ up.category \notin VALID_CATEGORIES
                  \/ up.mimetype \notin {"image/jpeg", "image/jpg", "image/png",
                                         "image/webp", "image/gif"}
               THEN ImageAnswered(fresh, 400)
               ELSE IF up.category # "thumbnails" /\ ~sharpOk
               THEN ImageAnswered(fresh, 500)
               ELSE [fresh EXCEPT !.pc = "putOriginal",
                                  !.key = originalKey(up.category, fresh.uploads)]
    /\ UNCHANGED <<images, imgStore>>
    /\ ImageFrame

\* s3Client.send(new PutObjectCommand(...)) settles, for the original and
\* then for the thumbnail
PutObjectSettled ==
    /\ imgReq.pc \in {"putOriginal", "putThumbnail"}
    /\ \E ok \in BOOLEAN :
          IF ~ok
          THEN /\ imgReq' = ImageAnswered(imgReq, 500)
               /\ UNCHANGED imgStore
          ELSE /\ imgStore' = imgStore \cup
                     {IF imgReq.pc = "putOriginal" THEN imgReq.key
                      ELSE thumbnailKey(imgReq.category, imgReq.key.serial)}
               /\ imgReq' = [imgReq EXCEPT !.pc =
                     IF imgReq.pc = "putOriginal" /\ imgReq.category # "thumbnails"
                     THEN "putThumbnail" ELSE "insert"]
    /\ UNCHANGED images
    /\ ImageFrame

\* the body of DELETE /api/images/<category>: the key of a stored image of the
\* category of the route or of another one, or no key
DeleteKeys(table) == {<<row.s3_key>> : row \in table} \cup {<<>>}

\* deleteImageByCategory(category) up to the SELECT of deleteImageFromS3
deleteImageByCategory ==
    /\ imgReq.pc \in {"idle", "done"}
    /\ imgReq.deletes < MaxImageDeletes
    /\ \E body \in DeleteKeys(images), category \in {"portraits", "thumbnails"} :
          LET fresh == [NoImgReq EXCEPT !.op = "deleteImageByCategory",
                                        !.uploads = imgReq.uploads,
                                        !.deletes = imgReq.deletes + 1,
                                        !.category = category]
          IN imgReq' =
               IF body = <<>> THEN ImageAnswered(fresh, 400)
               ELSE IF category \notin VALID_CATEGORIES \/ body[1].category # category
               THEN ImageAnswered(fresh, 500)
               ELSE [fresh EXCEPT !.pc = "fetch", !.key = body[1]]
    /\ UNCHANGED <<images, imgStore>>
    /\ ImageFrame

\* what the statement the request waits for does to the table when the server
\* applies it
ApplyStatement(table, rq) ==
    IF rq.pc = "insert" THEN table \cup {ImageRow(table, rq.category, rq.key)}
    ELSE IF rq.pc = "update" THEN SoftDelete(table, rq.key)
    ELSE IF rq.pc = "delete" THEN HardDelete(table, rq.key)
    ELSE table

\* the statement a service sends once the one it waited for has been answered
NextStatement(stmt, hardDelete) ==
    IF stmt = "fetch" THEN (IF hardDelete THEN "deleteOriginal" ELSE "update")
    ELSE IF stmt \in {"update", "delete"} THEN "log"
    ELSE "done"

\* one pool.query attempt of the call of query() the request waits for settles:
\* the INSERT of uploadImageToS3, or the SELECT, the UPDATE and the INSERT into
\* the activity log of deleteImageFromS3
ImageQuerySettled ==
    /\ imgReq.pc \in {"insert", "fetch", "update", "log"}
    /\ \E out \in AttemptOutcomes :
          LET q2 == query(imgReq.q, out.err)
              rows == {row \in images : row.s3_key = imgReq.key}
              next == NextStatement(imgReq.pc, HardDeleteDefault)
              counted == [imgReq EXCEPT
                            !.inserted = IF imgReq.pc = "insert" /\ out.applied
                                         THEN @ + 1 ELSE @]
          IN /\ images' = IF out.applied THEN ApplyStatement(images, imgReq) ELSE images
             /\ imgReq' =
                  IF q2.result = "none" THEN [counted EXCEPT !.q = q2]
                  ELSE IF q2.result = "error"
                  THEN [ImageAnswered(counted, 500) EXCEPT !.q = NoQuery, !.lastq = q2]
                  ELSE IF next = "done"
                  THEN [ImageAnswered(counted, IF imgReq.op = "uploadImage" THEN 201 ELSE 200)
                          EXCEPT !.q = NoQuery, !.lastq = q2]
                  ELSE [counted EXCEPT
                          !.pc = next, !.q = NoQuery, !.lastq = q2,
                          !.thumbnailUrl =
                              IF imgReq.pc = "fetch" /\ rows # {}
                              THEN (CHOOSE row \in rows : TRUE).thumbnail_url ELSE @]
    /\ UNCHANGED imgStore
    /\ ImageFrame

ImageNext ==
    \/ uploadImage
    \/ PutObjectSettled
    \/ deleteImageByCategory
    \/ ImageQuerySettled

\* the image endpoints that write, one request after the other
SpecImage == Init /\ [][ImageNext]_vars

\* ------------------------------------------------------ the image listing
\* the longest limit and page written out in full
MaxQueryLen == 2

\* req.query.limit and req.query.page as the client wrote them; the empty
\* string stands for the absent parameter as well (parseInt gives NaN for both)
QueryChars == {"0", "1", "2", "-", "x"}
QueryStrings == UNION {[1..n -> QueryChars] : n \in 0..MaxQueryLen}
PagingQueries ==
    {[limit |-> l, page |-> p] :
        l \in QueryStrings \cup {<<"1", "0", "0">>, <<"1", "0", "1">>},
        p \in QueryStrings}

HexDigits == Digits \o <<"a", "b", "c", "d", "e", "f">>

IsHexDigit(c) == \E i \in 1..16 : HexDigits[i] = LowerOf(c)

RECURSIVE LeadingHexDigits(_)
LeadingHexDigits(s) ==
    IF s = <<>> \/ ~IsHexDigit(Head(s)) THEN <<>>
    ELSE <<Head(s)>> \o LeadingHexDigits(Tail(s))

RECURSIVE HexValue(_)
HexValue(d) ==
    IF d = <<>> THEN 0
    ELSE HexValue(SubSeq(d, 1, Len(d) - 1)) * 16
            + (CHOOSE i \in 1..16 : HexDigits[i] = LowerOf(d[Len(d)])) - 1

\* parseInt(s) with no radix: after blanks and a sign, base 16 behind a 0x
\* prefix and base 10 otherwise; <<>> for NaN
ParseIntNoRadix(s) ==
    LET t == TrimStart(s)
        signed == t # <<>> /\ Head(t) \in {"-", "+"}
        body == IF signed THEN Tail(t) ELSE t
        hex == Len(body) >= 2 /\ body[1] = "0" /\ body[2] \in {"x", "X"}
        d == IF hex THEN LeadingHexDigits(SubSeq(body, 3, Len(body)))
             ELSE LeadingDigits(body)
        n == IF hex THEN HexValue(d) ELSE DigitsValue(d)
    IN IF d = <<>> THEN <<>>
       ELSE IF signed /\ Head(t) = "-" THEN <<0 - n>> ELSE <<n>>

\* parsed || dflt: NaN and 0 (and -0) give the default
OrDefault(parsed, dflt) == IF parsed = <<>> \/ parsed[1] = 0 THEN dflt ELSE parsed[1]

\* const limit = parseInt(req.query.limit) || 10, page = parseInt(req.query.page) || 1
ControllerLimit(qs) == OrDefault(ParseIntNoRadix(qs.limit), 10)
ControllerPage(qs) == OrDefault(ParseIntNoRadix(qs.page), 1)

\* const offset = (page - 1) * limit
PageOffset(page, limit) == (page - 1) * limit

\* limit < 1 || limit > 100 answers 400
LimitInRange(limit) == limit >= 1 /\ limit <= 100

RECURSIVE NatToString(_)
NatToString(n) ==
    IF n < 10 THEN <<Digits[n + 1]>>
    ELSE NatToString(n \div 10) \o <<Digits[(n % 10) + 1]>>

\* String(n) of an integer, as parseInt(n, 10) and the template literal make it
NumberToString(n) == IF n < 0 THEN <<"-">> \o NatToString(0 - n) ELSE NatToString(n)

\* a service that checks the limit alone
PaginationErrorLimitOnly(parsedLimit, parsedOffset) ==
    IF parsedLimit = <<>> \/ parsedLimit[1] <= 0 THEN "limit must be a positive integer"
    ELSE ""

\* what getImagesFromFolder throws before its first query ("" : nothing)
PaginationError(parsedLimit, parsedOffset) ==
    IF parsedLimit = <<>> \/ parsedLimit[1] <= 0 THEN "limit must be a positive integer"
    ELSE IF parsedOffset = <<>> \/ parsedOffset[1] < 0
    THEN "offset must be a non-negative integer"
    ELSE ""

\* `LIMIT ${parsedLimit} OFFSET ${parsedOffset}`
ListingSql(parsedLimit, parsedOffset) ==
    [limit |-> NumberToString(parsedLimit[1]), offset |-> NumberToString(parsedOffset[1])]

PagingFrame ==
    UNCHANGED <<pipeVars, filmVars, reply, slugReq, uploadKey, recordUrl, closedAt,
                incoming, stream, login, delivered, images, imgStore, imgReq>>

\* getImagesByCategory(category) and getImagesFromFolder up to its first await:
\* the range check of the handler, the two checks of the service, the count query
getImagesByCategory ==
    /\ paging.pc = "idle"
    /\ LET limit == ControllerLimit(paging.query)
           page == ControllerPage(paging.query)
           offset == PageOffset(page, limit)
           parsedLimit == ParseInt(NumberToString(limit))
           parsedOffset == ParseInt(NumberToString(offset))
           called == [paging EXCEPT !.limit = limit, !.offset = offset]
       IN paging' =
            IF ~LimitInRange(limit) THEN [called EXCEPT !.pc = "done", !.status = 400]
            ELSE IF PaginationError(parsedLimit, parsedOffset) # ""
            THEN [called EXCEPT !.pc = "done", !.status = 500]
            ELSE [called EXCEPT !.pc = "count", !.sent = 1]
    /\ PagingFrame

\* one pool.query attempt of the count query or of the listing query settles;
\* the answer to the count query is followed by the listing query
PagingQuerySettled ==
    /\ paging.pc \in {"count", "list"}
    /\ \E out \in AttemptOutcomes :
          LET q2 == query(paging.q, out.err)
          IN paging' =
               IF q2.result = "none" THEN [paging EXCEPT !.q = q2]
               ELSE IF q2.result = "error"
               THEN [paging EXCEPT !.pc = "done", !.status = 500, !.q = NoQuery]
               ELSE IF paging.pc = "count"
               THEN [paging EXCEPT
                       !.pc = "list", !.q = NoQuery, !.sent = 2,
                       !.sql = <<ListingSql(ParseInt(NumberToString(paging.limit)),
                                            ParseInt(NumberToString(paging.offset)))>>]
               ELSE [paging EXCEPT !.pc = "done", !.status = 200, !.q = NoQuery]
    /\ PagingFrame

InitPaging == \E pq \in PagingQueries : InitWith(Runs, NoSlugReq, NoParams, pq)

PagingNext == getImagesByCategory \/ PagingQuerySettled

\* GET /api/images/<category> for every query string
SpecPaging == InitPaging /\ [][PagingNext]_vars

\* ----------------------------------------------------- the two slug paths
\* uploadAndCreateVideo derives the slug and convertAndUpload the key
\* `${category}/${slug}/output.m3u8` of the manifest it uploads
DeriveUploadKey ==
    /\ uploadKey = <<>>
    /\ uploadKey' = ObjectKey(KeyPrefix("video", slugReq), Manifest)
    /\ UNCHANGED <<pipeVars, filmVars, reply, slugReq, recordUrl, closedAt, incoming, stream, login, delivered, images, imgStore, imgReq, paging>>

\* createVideoService derives the manifest URL of the record: buildVideoUrl
DeriveRecordUrl ==
    /\ recordUrl = <<>>
    /\ recordUrl' = buildVideoUrl(slugReq.category, slugReq.title)
    /\ UNCHANGED <<pipeVars, filmVars, reply, slugReq, uploadKey, closedAt, incoming, stream, login, delivered, images, imgStore, imgReq, paging>>

InitSlug == \E sr \in SlugRequests : InitOver(Runs, sr, NoParams)

SlugNext == DeriveUploadKey \/ DeriveRecordUrl

\* the two derivations of the manifest's place, for every title
SpecSlug == InitSlug /\ [][SlugNext]_vars

\* ------------------------------------------------------------ re-running
\* two requests, the second sent once the first has been answered
Pair == {1, 2}

RerunStart(r) ==
    /\ \A q \in Pair : q < r => pc[q] = "done"
    /\ uploadAndCreateVideo(r) \/ uploadTeaser(r)

RerunNext ==
    \E r \in Pair :
        \/ RerunStart(r)
        \/ WriteFileSettled(r)
        \/ FfmpegProgress(r)
        \/ FfmpegError(r)
        \/ FfmpegEnd(r)
        \/ UploadSettled(r)
        \/ RmSettled(r)
        \/ InsertVideoSettled(r)

SpecRerun == InitOver(Pair, NoSlugReq, NoParams) /\ [][RerunNext]_vars

\* ------------------------------------------------- the client going away
\* the request that arrives first
FirstRun == {r \in Runs : \A q \in Runs : r <= q}

\* a handler that gives its run up once the connection has closed
CancelledOnClose(r) == closedAt[r] # "open"

\* whether the handler gives up run r: neither handler listens for 'close'
\* on req or res, nor looks at the connection before a stage
Cancelled(r) == FALSE

\* the client of run r closes the connection while the run is under way
ClientCloses(r) ==
    /\ closedAt[r] = "open"
    /\ pc[r] \notin {"idle", "done"}
    /\ closedAt' = [closedAt EXCEPT ![r] = pc[r]]
    /\ UNCHANGED <<pipeVars, filmVars, reply, slugReq, uploadKey, recordUrl, incoming, stream, login, delivered, images, imgStore, imgReq, paging>>

\* an awaited operation of run r settles
Settle(r) ==
    /\ ~Cancelled(r)
    /\ \/ WriteFileSettled(r)
       \/ FfmpegError(r)
       \/ FfmpegEnd(r)
       \/ UploadSettled(r)
       \/ RmSettled(r)
       \/ InsertVideoSettled(r)

\* ----------------------------------------------------- the upload routes
\* file.mimetype of the part, as type and subtype
MimeTypes == { <<"video", "mp4">>, <<"image", "png">>, <<"application", "video">> }

\* the size of the part in MiB
FileSizesMiB == { 1, FILE_SIZE_LIMIT_MIB, FILE_SIZE_LIMIT_MIB + 1 }

\* fileFilter: the message of the error it calls back with ("" : accepted)
FileFilter(route, mime) ==
    IF mime[1] = "video" THEN ""
    ELSE IF route = "video" THEN "Only video files are allowed"
    ELSE "Only video files are allowed for the teaser."

NoError == [name |-> "", code |-> "", message |-> ""]

\* upload.single(...): the error multer passes to next(); the filter sees the
\* part's headers before any of its bytes, the size limit trips while the
\* bytes are read
MulterError(route, mime, size) ==
    IF FileFilter(route, mime) # ""
    THEN [name |-> "Error", code |-> "", message |-> FileFilter(route, mime)]
    ELSE IF size > FILE_SIZE_LIMIT_MIB
    THEN [name |-> "MulterError", code |-> "LIMIT_FILE_SIZE", message |-> "File too large"]
    ELSE NoError

\* the response to an error passed to next(): the current-film router ends
\* with an error middleware; the videos router and the app have none, so
\* the framework's default handler answers (the message only outside
\* production)
ErrorResponse(route, err, production) ==
    IF route = "teaser"
    THEN [status |-> 400,
          message |-> IF err.name = "MulterError" /\ err.code = "LIMIT_FILE_SIZE"
                      THEN "File too large. Maximum teaser size is 2 GB."
                      ELSE err.message]
    ELSE [status |-> 500,
          message |-> IF production THEN "Internal Server Error" ELSE err.message]

\* server.js app.use(...) in order, then the middleware the router puts before
\* the handler of the route: what a request passes on its way to the handler
MiddlewareBefore(route) == <<"cors", "express.json", "cookieParser", "upload.single">>

\* a multipart upload reaches upload.single(...) of one of the two routes
Multer(r) ==
    /\ incoming[r].route = "none"
    /\ pc[r] = "idle"
    /\ \E route \in {"video", "teaser"}, mime \in MimeTypes, size \in FileSizesMiB,
          production \in BOOLEAN, loggedIn \in BOOLEAN :
          LET err == MulterError(route, mime, size)
              res == ErrorResponse(route, err, production)
          IN /\ incoming' = [incoming EXCEPT ![r] =
                                [route |-> route, mime |-> mime, size |-> size,
                                 passed |-> err = NoError,
                                 loggedIn |-> loggedIn,
                                 through |-> MiddlewareBefore(route)]]
             /\ reply' = IF err = NoError THEN reply
                         ELSE [op |-> route, status |-> res.status, err |-> res.message,
                               id |-> <<>>]
    /\ UNCHANGED <<pipeVars, filmVars, slugReq, uploadKey, recordUrl, closedAt, stream, login, delivered, images, imgStore, imgReq, paging>>

\* multer has set req.file and calls the handler of the route
HandlerAfterMulter(r) ==
    /\ incoming[r].passed
    /\ uploadAndCreateVideo(r) \/ uploadTeaser(r)
    /\ kind'[r] = incoming[r].route
    /\ req'[r].file

GateNext ==
    \E r \in FirstRun :
        \/ Multer(r)
        \/ HandlerAfterMulter(r)
        \/ FfmpegProgress(r)
        \/ Settle(r)

\* one upload request from multer on
SpecGate == Init /\ [][GateNext]_vars

\* ------------------------------------------- playback and deletion at work
\* the steps of one run with a transcoder that reports no progress
RunSteps(r) ==
    \/ uploadAndCreateVideo(r)
    \/ uploadTeaser(r)
    \/ WriteFileSettled(r)
    \/ FfmpegError(r)
    \/ FfmpegEnd(r)
    \/ UploadSettled(r)
    \/ RmSettled(r)
    \/ InsertVideoSettled(r)

\* the stream requests sent while a run publishes its asset
PlaybackParams ==
    { [category |-> "short_films", videoSlug |-> <<"m", "y", "_", "f">>,
       filename |-> <<"o">> \o e] : e \in {ExtM3u8, ExtTs} }

InitDelivery == \E sp \in PlaybackParams : InitOver(Runs, NoSlugReq, sp)

DeliveryNext ==
    \/ streamVideo
    \/ \E r \in FirstRun : RunSteps(r)

\* the stream endpoint beside one pipeline run
SpecDelivery == InitDelivery /\ [][DeliveryNext]_vars

\* two requests served side by side
OverlapNext == \E r \in Pair : RunSteps(r)

SpecOverlap == InitOver(Pair, NoSlugReq, NoParams) /\ [][OverlapNext]_vars

DeleteNext ==
    \/ deleteVideo
    \/ removeCurrentFilm
    \/ \E c \in FirstCaller : addCurrentFilm(c)
    \/ \E c \in FirstCaller : createCurrentFilm(c)
    \/ \E r \in FirstRun : RunSteps(r)

\* the deleting endpoints beside one pipeline run and one POST /api/current
SpecDelete == Init /\ [][DeleteNext]_vars

\* the socket of run r passes the oldest event it still holds on to the
\* client; res.write(...) hands an event to the socket and returns, and the
\* handlers neither look at what it returns nor wait for 'drain' or a callback
SocketDrains(r) ==
    /\ closedAt[r] = "open"
    /\ delivered[r] < Len(events[r])
    /\ delivered' = [delivered EXCEPT ![r] = @ + 1]
    /\ UNCHANGED <<pipeVars, filmVars, reply, slugReq, uploadKey, recordUrl, closedAt,
                   incoming, stream, login, images, imgStore, imgReq, paging>>

FlushNext ==
    \E r \in FirstRun :
        \/ SocketDrains(r)
        \/ uploadAndCreateVideo(r)
        \/ uploadTeaser(r)
        \/ FfmpegProgress(r)
        \/ Settle(r)

\* one run and the socket that carries its events
SpecFlush == Init /\ [][FlushNext]_vars

DisconnectNext ==
    \E r \in FirstRun :
        \/ ClientCloses(r)
        \/ uploadAndCreateVideo(r)
        \/ uploadTeaser(r)
        \/ ~Cancelled(r) /\ FfmpegProgress(r)
        \/ Settle(r)

\* one run and its client; every awaited operation settles in the end
SpecDisconnect ==
    /\ Init /\ [][DisconnectNext]_vars
    /\ \A r \in FirstRun : WF_vars(Settle(r))

Spec == Init /\ [][Next]_vars

\* the current-film endpoints alone
SpecFilm == Init /\ [][FilmNext]_vars

\* the endpoints that create and delete records
SpecCrud == Init /\ [][CrudNext]_vars


\* ------------------------------------------------------------ properties
Last(seq) == seq[Len(seq)]
IsTerminal(e) == e.type \in {"complete", "error"}
TerminalCount(ev) == Cardinality({i \in 1..Len(ev) : IsTerminal(ev[i])})
Finished(r) == pc[r] = "done"
EndsWith(r, type) == events[r] # <<>> /\ Last(events[r]).type = type
ObjectsOf(r) == {o \in s3 : o.run = r}
AllUploaded(r) == \A f \in DOMAIN upl[r] : upl[r][f] = "ok"

\* C1: once a run that created a workspace has finished, on whatever path, its
\* workspace directory no longer exists and was removed exactly once.
C1_WorkspaceRemoved ==
    \A r \in Runs :
        (Finished(r) /\ tempDir[r] # 0 /\ failed[r] # "mkdir")
            => (tempDir[r] \notin fsDirs /\ rmCount[r] = 1)

\* C2: each request has at most one terminal event; the stream is ended exactly
\* when the terminal event has been written, the terminal event is the last
\* event of the stream, and a handler that has finished has written it.
C2_OneTerminalEvent ==
    \A r \in Runs :
        /\ TerminalCount(events[r]) <= 1
        /\ ended[r] <=> TerminalCount(events[r]) = 1
        /\ ended[r] => IsTerminal(Last(events[r]))
        /\ Finished(r) <=> ended[r]

C2_Witness ==
    \E r \in Runs :
        /\ kind[r] = "video" /\ ended[r] /\ EndsWith(r, "complete")
        /\ Len(events[r]) >= 4


\* C4: a video run issues and completes its insert only when every upload of
\* the run has succeeded; once one upload has failed the run has ended with an
\* error event and has no record.
C4_InsertAfterAllUploads ==
    \A r \in Runs :
        /\ (pc[r] = "saving" \/ insertedBy[r] # {})
              => (ffout[r] = "end" /\ AllUploaded(r))
        /\ (\E f \in DOMAIN upl[r] : upl[r][f] = "failed")
              => (Finished(r) /\ EndsWith(r, "error") /\ insertedBy[r] = {})
        /\ \A id \in insertedBy[r] : \E v \in videos : v.id = id

C4_Witness ==
    \E r \in Runs :
        /\ insertedBy[r] # {}
        /\ Cardinality(DOMAIN upl[r]) >= 2
        /\ Cardinality(ObjectsOf(r)) >= 2

\* the place of an event in the order of a run: 0 is a stage outside the order
StageRank(e, second) ==
    IF IsTerminal(e) THEN 3
    ELSE IF e.stage = "converting" THEN 1
    ELSE IF e.stage \in second THEN 2
    ELSE 0

\* converting events, then at most one event of a stage in `second`, then at
\* most one terminal event; a complete event has the event of the second stage
\* right before it
InOrder(ev, second) ==
    /\ \A i \in 1..Len(ev) : StageRank(ev[i], second) >= 1
    /\ \A i, j \in 1..Len(ev) :
          i < j => /\ StageRank(ev[i], second) <= StageRank(ev[j], second)
                   /\ StageRank(ev[i], second) < 3
                   /\ StageRank(ev[j], second) = 2 => StageRank(ev[i], second) = 1
    /\ \A i \in 1..Len(ev) :
          ev[i].type = "complete" => (i > 1 /\ StageRank(ev[i - 1], second) = 2)

\* C5 as stated: converting events, then the uploading event, then the terminal event
C5_Original == \A r \in Runs : InOrder(events[r], {"uploading"})

\* C5: the events of a run are converting events, then one progress event whose
\* stage is uploading in a teaser run and saving in a video run, then the single
\* terminal event; nothing follows the terminal event.
C5_StageOrder ==
    \A r \in Runs :
        InOrder(events[r], IF kind[r] = "video" THEN {"saving"} ELSE {"uploading"})

C5_Witness ==
    \E r \in Runs :
        /\ kind[r] = "video" /\ EndsWith(r, "complete")
        /\ Len(events[r]) >= 4
        /\ events[r][Len(events[r]) - 1].stage = "saving"
        /\ events[r][2].stage = "converting"

\* C6: every progress event carries a percent within 0..100
C6_PercentInRange ==
    \A r \in Runs : \A i \in 1..Len(events[r]) :
        events[r][i].type = "progress" => events[r][i].percent \in 0..100

\* C7: a run whose transcoder reported an error has ended with an error event,
\* started no upload, put no object into the object store and inserted no record.
C7_TranscoderError ==
    \A r \in Runs :
        ffout[r] = "error"
            => /\ Finished(r) /\ ended[r] /\ EndsWith(r, "error")
               /\ DOMAIN upl[r] = {}
               /\ ObjectsOf(r) = {}
               /\ insertedBy[r] = {}

C7_Witness ==
    \E r \in Runs :
        /\ kind[r] = "video" /\ ffout[r] = "error" /\ Finished(r)
        /\ Len(events[r]) >= 3

\* C8: a finished run whose transcoder succeeded with an empty output directory
\* ended with an error event and inserted no record.
C8_ZeroFilesFails ==
    \A r \in Runs :
        (Finished(r) /\ ffout[r] = "end" /\ DOMAIN upl[r] = {})
            => (EndsWith(r, "error") /\ insertedBy[r] = {})

\* every stage of the run was reached and succeeded
AllStagesSucceeded(r) ==
    /\ tempDir[r] # 0 /\ ffout[r] = "end" /\ AllUploaded(r)
    /\ rmCount[r] = 1 /\ tempDir[r] \notin fsDirs
    /\ kind[r] = "video" => insertedBy[r] # {}
    /\ failed[r] = "none"

\* C9: a finished handler has ended its stream with a terminal event; an error
\* event carries a non-empty message; the event is complete exactly when every
\* stage of the run succeeded, and error when a stage failure was caught.
C9_FailureBecomesErrorEvent ==
    \A r \in Runs :
        Finished(r)
            => /\ ended[r] /\ IsTerminal(Last(events[r]))
               /\ EndsWith(r, "error") => Last(events[r]).message # ""
               /\ EndsWith(r, "complete") <=> AllStagesSucceeded(r)
               /\ failed[r] # "none" => EndsWith(r, "error")

C9_Witness ==
    \E r \in Runs :
        /\ Finished(r) /\ failed[r] = "upload"
        /\ Last(events[r]).message = "Upload failed"


\* the calls of createCurrentFilm the store has answered without failing itself
Answered == {c \in Callers : call[c].pc = "done" /\ call[c].status \in {201, 409}}
Succeeded == {c \in Callers : call[c].pc = "done" /\ call[c].status = 201}
StoreFailed == {c \in Callers : call[c].pc = "done" /\ call[c].code \in StoreErrors}

\* C3: no two current-film records ever co-exist; as long as nothing has been
\* deleted, of the createCurrentFilm calls the store has answered exactly one
\* has succeeded and each of the others has failed with ALREADY_EXISTS.
C3_SingletonCreate ==
    /\ Cardinality(current_film) <= 1
    /\ (deletes = 0 /\ Answered # {})
          => /\ Cardinality(Succeeded) = 1
             /\ Cardinality(current_film) = 1
             /\ \A c \in Answered \ Succeeded :
                    call[c].status = 409 /\ call[c].code = "ALREADY_EXISTS"
    /\ \A c \in Callers :
          call[c].pc = "done"
              => (c \in Answered \/ c \in StoreFailed \/ call[c].status = 400)

C3_Witness ==
    /\ deletes = 0
    /\ StoreFailed = {}
    /\ Cardinality(Succeeded) = 1
    /\ Cardinality(Answered) = NumCallers

\* a call of createCurrentFilm is answered in this step
Settles(c) == call[c].pc = "inserting" /\ call'[c].pc = "done"

\* C10: a createCurrentFilm call answered while a record exists does not
\* succeed, fails with ALREADY_EXISTS (409) unless the store itself failed,
\* and leaves the table as it was: getCurrentFilm goes on returning the title,
\* description, video URL and teaser URL the successful create returned.
C10_SecondCreateRejected ==
    [][\A c \in Callers :
          (Settles(c) /\ current_film # {})
              => /\ current_film' = current_film
                 /\ call'[c].status # 201
                 /\ call'[c].code \notin StoreErrors
                       => (call'[c].code = "ALREADY_EXISTS" /\ call'[c].status = 409)
                 /\ lastCreated' = lastCreated
                 /\ getCurrentFilm' = {lastCreated}]_vars

C10_Witness ==
    \E c \in Callers :
        /\ call[c].pc = "done" /\ call[c].status = 409
        /\ \E row \in current_film :
              /\ row.title # call[c].body.title
              /\ row.video_url # call[c].body.videoUrl
              /\ formatRow(row) = lastCreated

\* C11: an insert of createCurrentFilm that the store rejected for its unique
\* key is answered by addCurrentFilm with 409 and never with 500; an insert
\* that failed with any other error of the store is answered with 500 and
\* never with 409.
C11_ConflictIs409 ==
    \A c \in Callers :
        (call[c].pc = "done" /\ call[c].err # "")
            => /\ call[c].err = MYSQL_DUP_ENTRY => call[c].status = 409
               /\ call[c].err # MYSQL_DUP_ENTRY => call[c].status = 500

C11_Witness ==
    \E c, d \in Callers :
        /\ call[c].pc = "done" /\ call[c].err = MYSQL_DUP_ENTRY /\ call[c].status = 409
        /\ call[d].pc = "done" /\ call[d].err \in StoreErrors /\ call[d].status = 500

\* a DELETE /api/current is served in this step
Removes == deletes' # deletes

\* C12: a createCurrentFilm call the store answers succeeds exactly when the
\* table holds no record at that moment, and a delete that reports success
\* leaves the table empty, so that the first create after it succeeds.
C12_CreateIffEmpty ==
    [][/\ \A c \in Callers :
             (Settles(c) /\ call'[c].err \notin StoreErrors)
                 => (call'[c].status = 201 <=> current_film = {})
       /\ (Removes /\ reply'.status = 200)
             => (current_film # {} /\ current_film' = {})]_vars

C12_Witness ==
    /\ reply.op = "removeCurrentFilm" /\ reply.status = 200
    /\ current_film # {}
    /\ Cardinality(Succeeded) > 1

\* C14: a store call of the metadata recorder that a connection reset failed
\* was sent a second time before the failure was surfaced.
C14_RetriedOnce ==
    \A c \in Callers :
        (call[c].pc = "done" /\ call[c].err = "ECONNRESET") => call[c].tries > 1

\* a DELETE /api/videos/:id whose id parsed and whose statement the store
\* executed is served in this step
DeletesVideo ==
    /\ reply'.op = "deleteVideo" /\ reply'.err = "" /\ reply'.id # <<>>
    /\ reply' # reply \/ videos' # videos

\* C13: deleteVideoById with an id no row has, and deleteCurrentFilm on an
\* empty table, return the negative result, which the handler answers with
\* 404, and leave both tables as they were.
C13_DeleteNothing ==
    [][/\ (DeletesVideo /\ \A v \in videos : <<v.id>> # reply'.id)
             => /\ reply'.status = 404
                /\ videos' = videos /\ current_film' = current_film
       /\ (Removes /\ reply'.err = "" /\ current_film = {})
             => /\ reply'.status = 404
                /\ current_film' = current_film /\ videos' = videos]_vars

C13_Witness ==
    /\ reply.op = "deleteVideo" /\ reply.status = 404 /\ videos # {}
    /\ deletes > 0 /\ Succeeded = {} /\ current_film = {}

\* the keys of the objects the store holds
StoredKeys == {o.key : o \in s3}

\* C15: every record of the videos table has its manifest in the object
\* store under the key its manifest URL names, beside at least one segment.
C15_RecordAfterUploads ==
    \A v \in videos :
        /\ v.video_url \in StoredKeys
        /\ \E k \in StoredKeys :
              /\ k # v.video_url
              /\ SubSeq(k, 1, Len(k) - 1) = SubSeq(v.video_url, 1, Len(v.video_url) - 1)

\* the objects stored under the keys of a prefix
Under(prefix) == {o \in s3 : SubSeq(o.key, 1, Len(o.key) - 1) = prefix}

\* C16: once a video run has ended with complete, the object store holds under
\* the prefix category/slug of the run exactly one manifest and at least one
\* segment.
C16_ManifestAndSegments ==
    \A r \in Runs :
        (kind[r] = "video" /\ EndsWith(r, "complete"))
            => LET prefix == <<req[r].category, toSafeSlug(req[r].title)>>
               IN /\ Cardinality({o \in Under(prefix) : Last(o.key) = Manifest}) = 1
                  /\ \E o \in Under(prefix) : Last(o.key) # Manifest

\* C17: for every title the key under which the upload path puts the
\* manifest is the one the manifest URL of the record names: both slugs are
\* the same, and hold nothing but characters of [a-z0-9_].
C17_SameSlug ==
    /\ (uploadKey # <<>> /\ recordUrl # <<>>) => uploadKey = recordUrl
    /\ uploadKey # <<>> =>
          /\ uploadKey[1] = slugReq.category
          /\ \A i \in 1..Len(uploadKey[2]) : IsSlugChar(uploadKey[2][i])
          /\ Len(uploadKey[2]) <= Len(slugReq.title)

C17_Witness ==
    /\ slugReq.title = <<"M", " ", "!">>
    /\ uploadKey = <<"short_films", <<"m", "_">>, Manifest>>
    /\ recordUrl = uploadKey

\* both requests were video uploads of one category and title that ended
\* with complete
TwoSuccessfulRuns ==
    /\ \A r \in Pair : kind[r] = "video" /\ EndsWith(r, "complete")
    /\ \A q, r \in Pair : req[q].category = req[r].category /\ req[q].title = req[r].title

\* C18: two successful video runs with one category and title, one after the
\* other, use one key prefix: no object lies under another prefix, no key
\* holds two objects, every file the second run uploaded is the object now
\* under its key, and the table holds two records, one of each run, with
\* distinct ids and the same manifest URL.
C18_SamePrefixTwoRecords ==
    TwoSuccessfulRuns
        => /\ \A q, r \in Pair : KeyPrefix("video", req[q]) = KeyPrefix("video", req[r])
           /\ \A r \in Pair : s3 = Under(KeyPrefix("video", req[r]))
           /\ \A o, u \in s3 : o.key = u.key => o = u
           /\ \A r \in Pair : \A f \in DOMAIN upl[r] :
                 (\A q \in Pair : q <= r)
                     => [key |-> ObjectKey(KeyPrefix("video", req[r]), f), run |-> r] \in s3
           /\ \A r \in Pair : Cardinality(insertedBy[r]) = 1
           /\ \A q, r \in Pair : q # r => insertedBy[q] \cap insertedBy[r] = {}
           /\ {v.id : v \in videos} = UNION {insertedBy[r] : r \in Pair}
           /\ Cardinality(videos) = Cardinality(Pair)
           /\ \A v, w \in videos : v.video_url = w.video_url

C18_Witness ==
    /\ TwoSuccessfulRuns
    /\ \A r \in Pair : Cardinality(DOMAIN upl[r]) > 1
    /\ \A o \in s3 : \A q \in Pair : o.run >= q
    /\ Cardinality(s3) > 1

\* C19: once the later of two teaser runs has ended with complete, every
\* object of both runs lies under short_films/teaser, and the manifest and
\* every segment of the later run are the objects now under their keys.
C19_LaterTeaserWins ==
    \A q, r \in Pair :
        (q < r /\ kind[q] = "teaser" /\ kind[r] = "teaser" /\ EndsWith(r, "complete"))
            => /\ s3 = Under(TEASER_S3_PREFIX)
               /\ [key |-> ObjectKey(TEASER_S3_PREFIX, Manifest), run |-> r] \in s3
               /\ \A f \in DOMAIN upl[r] :
                     [key |-> ObjectKey(TEASER_S3_PREFIX, f), run |-> r] \in s3

\* C20: a run whose client has gone goes on to its end, and a video run that
\* ends with no stage having failed has inserted its record.
C20_RunsToTheEnd ==
    /\ [](\A r \in FirstRun :
             (Finished(r) /\ kind[r] = "video" /\ failed[r] = "none")
                 => insertedBy[r] # {})
    /\ \A r \in FirstRun : (closedAt[r] # "open") ~> Finished(r)

C20_Witness ==
    \E r \in FirstRun :
        /\ closedAt[r] = "writing" /\ kind[r] = "video"
        /\ Finished(r) /\ EndsWith(r, "complete") /\ insertedBy[r] # {}
        /\ Cardinality(ObjectsOf(r)) > 1

\* the request of run r lacks its file or, on the video path, one of
\* category, title and description
FailsValidation(r) ==
    /\ kind[r] # "none"
    /\ \/ ~req[r].file
       \/ kind[r] = "video" /\ (req[r].category = "" \/ req[r].title = <<>>
                                    \/ req[r].description = "")

\* C21: a request that fails validation never reaches the pipeline: its
\* stream holds one error event and nothing else and is ended, no workspace
\* was created, the transcoder was not run, nothing was uploaded and no
\* record was inserted.
C21_ValidationStopsRun ==
    \A r \in Runs :
        FailsValidation(r)
            => /\ Finished(r) /\ ended[r] /\ failed[r] = "validation"
               /\ Len(events[r]) = 1 /\ events[r][1].type = "error"
               /\ tempDir[r] = 0 /\ rmCount[r] = 0
               /\ ffout[r] = "none"
               /\ DOMAIN upl[r] = {} /\ ObjectsOf(r) = {}
               /\ insertedBy[r] = {}

C21_Witness ==
    \E r \in Runs :
        /\ kind[r] = "video" /\ req[r].file /\ req[r].title = <<>>
        /\ Finished(r) /\ events[r][1].message = "Missing fields"

\* what a client can recognise as a size-limit error
SizeLimitMessages == {"File too large", "File too large. Maximum teaser size is 2 GB."}

\* the upload sent for run r is larger than 2 GiB or not of a video type
OverLimitOrNotVideo(r) ==
    /\ incoming[r].route # "none"
    /\ incoming[r].size > FILE_SIZE_LIMIT_MIB \/ incoming[r].mime[1] # "video"

\* C22: an upload larger than 2 GiB or of a type that is not video/* never
\* reaches its handler, no workspace is created, nothing is transcoded or
\* uploaded, and the response is an error, which for an oversized video is a
\* size-limit error.
C22_RejectedBeforePipeline ==
    \A r \in FirstRun :
        OverLimitOrNotVideo(r)
            => /\ ~incoming[r].passed
               /\ pc[r] = "idle" /\ kind[r] = "none" /\ events[r] = <<>>
               /\ tempDir[r] = 0 /\ fsDirs = {} /\ ffout[r] = "none"
               /\ DOMAIN upl[r] = {} /\ s3 = {} /\ videos = {}
               /\ reply.op = incoming[r].route /\ reply.status >= 400
               /\ incoming[r].mime[1] = "video" => reply.err \in SizeLimitMessages

\* the service of run r has returned: every upload joined, the workspace removed
ServiceReturned(r) == rmCount[r] = 1

C24_SignedUrl ==
    stream.status = 302
        => LET q == stream.params
               f == q.filename
               n == Len(f)
               IsM3u8 == n >= 5 /\ f[n-4] = "." /\ f[n-3] = "m" /\ f[n-2] = "3"
                                /\ f[n-1] = "u" /\ f[n] = "8"
               IsTs == n >= 3 /\ f[n-2] = "." /\ f[n-1] = "t" /\ f[n] = "s"
           IN  /\ stream.location.key = <<q.category, q.videoSlug, q.filename>>
               /\ stream.location.expiresIn = 10 * 60
               /\ stream.location.contentType =
                     (IF IsM3u8 THEN "application/vnd.apple.mpegurl"
                      ELSE IF IsTs THEN "video/mp2t"
                      ELSE "application/octet-stream")

\* a URL issued for a name that ends in ts without being a .ts file
C24_Witness ==
    /\ stream.status = 302
    /\ stream.params.filename = <<"t", "s">>
    /\ stream.location.contentType = "application/octet-stream"

\* a GET /stream request is answered in this step
Streams == stream'.served # stream.served

\* C25: a playback request leaves the tables and the object store as they
\* were and is answered from its path parameters alone: unless the signer
\* fails the redirect goes to the URL for category/slug/filename whether or not
\* a record of the asset exists, and every request, a repeated one too, gets the
\* URL that its own call of generateSignedUrl produced.
C25_PlaybackReadsNothing ==
    [][Streams
         => /\ videos' = videos /\ current_film' = current_film /\ s3' = s3
            /\ nextId' = nextId /\ filmNextId' = filmNextId
            /\ stream'.status \in {302, 500}
            /\ stream'.status = 302
                  => /\ stream'.location.key =
                          <<stream.params.category, stream.params.videoSlug,
                            stream.params.filename>>
                     /\ stream'.signedFor = stream'.served]_vars

\* a repeated request answered with a redirect while the table has no record
\* and the object store no object
C25_Witness ==
    /\ stream.served > 1 /\ stream.status = 302 /\ stream.signedFor = stream.served
    /\ videos = {} /\ s3 = {}

\* a DELETE /api/videos/:id whose statement the store executed is served in
\* this step, beside a run that may insert records of its own
DeletesRecord ==
    /\ reply'.op = "deleteVideo" /\ reply'.err = "" /\ reply'.id # <<>>
    /\ reply' # reply \/ (videos' # videos /\ nextId' = nextId)

\* C26: deleteVideoById and deleteCurrentFilm remove the record from their
\* table and nothing else: the objects of the asset stay in the object store,
\* and the other table is left alone.
C26_DeleteRecordOnly ==
    [][/\ DeletesRecord
             => /\ videos' = {v \in videos : <<v.id>> # reply'.id}
                /\ s3' = s3 /\ current_film' = current_film
       /\ Removes
             => /\ reply'.err = "" => current_film' = {}
                /\ s3' = s3 /\ videos' = videos]_vars

\* the record a run inserted has been deleted and the objects the run
\* uploaded are still stored
C26_Witness ==
    /\ reply.op = "deleteVideo" /\ reply.status = 200 /\ videos = {}
    /\ \E r \in Runs : insertedBy[r] # {} /\ ObjectsOf(r) # {}

\* C27: two runs never have the same workspace directory, also when one of
\* them has finished and its directory is gone; a directory is created only
\* by the run that starts in that step, as its own, and removed only by the
\* run that owns it.
C27_OwnWorkspace ==
    [][/\ \A r \in Pair : \A q \in Pair :
             (r # q /\ tempDir'[r] # 0 /\ tempDir'[q] # 0) => tempDir'[r] # tempDir'[q]
       /\ \A r \in Pair : tempDir[r] # 0 => tempDir'[r] = tempDir[r]
       /\ \A d \in fsDirs' \ fsDirs :
             \E r \in Pair : tempDir[r] = 0 /\ tempDir'[r] = d
                              /\ \A q \in Pair : tempDir[q] # d
       /\ \A d \in fsDirs \ fsDirs' :
             \E r \in Pair : tempDir[r] = d /\ rmCount'[r] = rmCount[r] + 1]_vars

\* two runs under way at once, each with its directory on disk
C27_Witness ==
    /\ \A r \in Pair : pc[r] \notin {"idle", "done"} /\ tempDir[r] \in fsDirs
    /\ Cardinality({tempDir[r] : r \in Pair}) = 2

\* the middleware a request is taken through before its handler runs
PassedThrough(r) == {incoming[r].through[i] : i \in DOMAIN incoming[r].through}

\* C28: an admin operation is executed only for a request that passed the
\* authentication middleware; here the two upload operations, whose handler
\* runs only for a request of a logged-in admin that an authentication
\* middleware let through.
C28_AdminAuthenticated ==
    \A r \in FirstRun :
        kind[r] # "none"
            => /\ incoming[r].loggedIn
               /\ \E mw \in PassedThrough(r) : mw \notin {"cors", "express.json", "cookieParser", "upload.single"}

\* attempt a passed validation and its lookup was answered
LookedUp(a) == login[a].pc = "done" /\ login[a].status \in {200, 401}

\* C29: of two login attempts that passed validation, one with an email no
\* admin has and one with the email of an admin and a wrong password, both
\* are answered 401 with the same message, and in both bcrypt compared the
\* password against a hash.
C29_SameAnswer ==
    \A a \in Attempts : \A b \in Attempts :
        ( /\ LookedUp(a) /\ login[a].found = <<>>
          /\ LookedUp(b) /\ login[b].found # <<>>
          /\ login[b].password # login[b].found[1].password.of )
            => /\ login[a].status = 401 /\ login[b].status = 401
               /\ login[a].message = login[b].message
               /\ login[a].compared # NoHash /\ login[b].compared # NoHash

\* an attempt with an unknown email beside one with a wrong password
C29_Witness ==
    \E a \in Attempts : \E b \in Attempts :
        /\ LookedUp(a) /\ login[a].found = <<>> /\ login[a].compared = DUMMY_HASH
        /\ LookedUp(b) /\ login[b].found # <<>> /\ login[b].status = 401
        /\ login[b].compared = login[b].found[1].password

\* C30: when a run goes from one stage to the next, every event it has
\* written so far has reached the client.
C30_FlushedBeforeNextStage ==
    [][\A r \in FirstRun :
          (pc[r] # "idle" /\ pc'[r] # pc[r]) => delivered[r] = Len(events[r])]_vars

\* the calls of query() on record: the one under way and the last one finished
QueryCalls == {imgReq.q, imgReq.lastq}

\* C31: one call of the query wrapper sends its statement at most twice; it
\* sends it a second time exactly when the first attempt failed with ECONNRESET
\* or PROTOCOL_CONNECTION_LOST, surfaces any other error after the first
\* attempt, and surfaces a failure of the second attempt without a third.
C31_RetryOnce ==
    \A c \in QueryCalls :
        /\ c.sent <= 2
        /\ c.sent = 2 => c.first \in {"ECONNRESET", "PROTOCOL_CONNECTION_LOST"}
        /\ (c.sent = 1 /\ c.first \in {"ECONNRESET", "PROTOCOL_CONNECTION_LOST"})
              => c.result = "none"
        /\ (c.sent = 1 /\ c.first \notin {"", "ECONNRESET", "PROTOCOL_CONNECTION_LOST"})
              => c.result = "error"
        /\ (c.sent = 2 /\ c.second # "") => c.result = "error"
        /\ c.result = "ok" => (IF c.sent = 2 THEN c.second ELSE c.first) = ""

\* a call whose second attempt was reset as well and which ended there
C31_Witness ==
    /\ imgReq.lastq.sent = 2 /\ imgReq.lastq.second = "ECONNRESET"
    /\ imgReq.lastq.result = "error" /\ imgReq.status = 500


\* the keys the object store holds
StoreKeys(store) == {o.key : o \in store}

\* the keys of the uploads of run r that succeeded
UploadedKeys(r) ==
    {ObjectKey(KeyPrefix(kind[r], req[r]), f) : f \in {g \in DOMAIN upl[r] : upl[r][g] = "ok"}}

\* C32: every object a completed upload stored is still in the store, whatever
\* became of its run, and a run that has failed at an upload or at the insert
\* of its record has ended with an error event and has no record.
C32_OrphansRemain ==
    \A r \in Runs :
        /\ UploadedKeys(r) \subseteq StoreKeys(s3)
        /\ failed[r] \in {"upload", "insert"}
              => (EndsWith(r, "error") /\ ended[r] /\ insertedBy[r] = {})

C32_Witness ==
    \E r \in Runs :
        /\ failed[r] = "upload" /\ EndsWith(r, "error")
        /\ \E f \in DOMAIN upl[r] : upl[r][f] = "ok"
        /\ \A f \in DOMAIN upl[r] : upl[r][f] # "inflight"
        /\ UploadedKeys(r) # {} /\ UploadedKeys(r) \subseteq StoreKeys(s3)

\* C33: once a run has written its terminal event and ended its response, no
\* upload of the run completes and the run stores no further object.
C33_NoWriteAfterTerminal ==
    [][\A r \in Runs :
          ended[r] => /\ \A f \in DOMAIN upl[r] : upl'[r][f] = "ok" => upl[r][f] = "ok"
                      /\ ObjectsOf(r)' \subseteq ObjectsOf(r)]_vars

\* a run has finished and none of its uploads is still under way
Settled(r) == Finished(r) /\ \A f \in DOMAIN upl[r] : upl[r][f] # "inflight"

\* C34: once two runs that publish to the same prefix have both finished, the
\* manifest and every segment under that prefix were stored by one of them.
C34_OneRunOwnsPrefix ==
    \A q, r \in Pair :
        (q # r /\ Settled(q) /\ Settled(r) /\ kind[q] # "none" /\ kind[r] # "none"
              /\ KeyPrefix(kind[q], req[q]) = KeyPrefix(kind[r], req[r]))
            => \E w \in Pair :
                  \A o \in s3 :
                      (\E f \in DOMAIN upl[q] \cup DOMAIN upl[r] :
                           o.key = ObjectKey(KeyPrefix(kind[q], req[q]), f))
                         => o.run = w

\* C35: a run whose workspace has been removed has every one of its uploads
\* completed, and an upload that is under way has its workspace on disk.
C35_RemovedAfterUploads ==
    \A r \in Runs :
        /\ rmCount[r] > 0 => AllUploaded(r)
        /\ (\E f \in DOMAIN upl[r] : upl[r][f] = "inflight") => tempDir[r] \in fsDirs

C35_Witness ==
    \E r \in Runs :
        /\ rmCount[r] = 1 /\ tempDir[r] # 0 /\ tempDir[r] \notin fsDirs
        /\ Cardinality(DOMAIN upl[r]) >= 2 /\ AllUploaded(r)
        /\ EndsWith(r, "complete")

\* C36: one call of uploadImageToS3 adds at most one row to the images table,
\* whatever the attempts of its insert end with.
C36_OneRowPerUpload ==
    imgReq.op = "uploadImage"
        => /\ imgReq.inserted <= 1
           /\ Cardinality({row \in images : row.s3_key = imgReq.key}) <= 1

\* C37: a request whose title passes validation (a non-empty string) is given a
\* non-empty slug, in the upload key as in the URL of the record.
C37_SlugNotEmpty ==
    MissingFields([category |-> slugReq.category, title |-> slugReq.title,
                   description |-> "d"]) = {}
        => /\ uploadKey # <<>> => uploadKey[2] # <<>>
           /\ recordUrl # <<>> => recordUrl[2] # <<>>

\* C39: once deleteImageByCategory has answered 200 for a key, the original
\* and its thumbnail are no longer in the bucket and no row holds the key.
C39_DeletedEverywhere ==
    (imgReq.op = "deleteImageByCategory" /\ imgReq.pc = "done" /\ imgReq.status = 200)
        => /\ imgReq.key \notin imgStore
           /\ thumbnailKey(imgReq.key.category, imgReq.key.serial) \notin imgStore
           /\ \A row \in images : row.s3_key # imgReq.key

\* the text is a decimal numeral: digits and nothing else
IsNumeral(text) == text # <<>> /\ \A i \in 1..Len(text) : IsDigit(text[i])

\* C38: the listing query is sent only with a positive integer as its limit and
\* a non-negative integer as its offset, and its LIMIT and OFFSET are the
\* numerals of these two values; a request whose limit or offset is anything
\* else is answered with an error before any query has been sent.
C38_ValidatedPagination ==
    /\ paging.sql # <<>>
          => /\ paging.limit > 0 /\ paging.offset >= 0
             /\ IsNumeral(paging.sql[1].limit) /\ IsNumeral(paging.sql[1].offset)
             /\ DigitsValue(paging.sql[1].limit) = paging.limit
             /\ DigitsValue(paging.sql[1].offset) = paging.offset
    /\ (paging.pc # "idle" /\ (paging.limit <= 0 \/ paging.offset < 0))
          => (paging.sent = 0 /\ paging.sql = <<>> /\ paging.status \in {400, 500})

C38_Witness ==
    /\ paging.status = 200 /\ paging.sql # <<>>
    /\ paging.query.limit # <<>> /\ paging.query.page # <<>>
    /\ paging.offset > paging.limit
====
